---------------------------- MODULE Spec2Model ----------------------------
(***************************************************************************)
(* A model of the matrix inverter (src/matrix_inverter.py): the            *)
(* Gauss-Jordan engine gauss_jordan_inverse, the scalar formatter          *)
(* format_number, and the handlers calculate_inverse, clear_result,        *)
(* clear_matrices and create_matrix_grid that store and display results.   *)
(*                                                                         *)
(* Python floats are IEEE-754 binary64.  They are modelled bit-exactly:    *)
(* a float is a sign, a 53-bit significand and a binary exponent, and      *)
(* every arithmetic operation rounds to nearest, ties to even.  The        *)
(* significands do not fit the model checker's machine integers, so they   *)
(* are kept as little-endian sequences of 14-bit limbs.                    *)
(***************************************************************************)
EXTENDS Integers, Sequences, FiniteSets, TLC

(***************************************************************************)
(* The operators of the model, by name.  Each is defined below under its   *)
(* name with Impl appended and is reached through the one recursive        *)
(* operator Apply, which keeps the expression tree of an action small.     *)
(***************************************************************************)
RECURSIVE Apply(_, _)
CarryPass(v, n) == Apply("CarryPass", <<v, n>>)
CarryOut(t, i) == Apply("CarryOut", <<t, i>>)
NCarry(t) == Apply("NCarry", <<t>>)
NNormal(v, n) == Apply("NNormal", <<v, n>>)
NAdd(a, b) == Apply("NAdd", <<a, b>>)
BorrowOut(a, b, i) == Apply("BorrowOut", <<a, b, i>>)
NSub(a, b) == Apply("NSub", <<a, b>>)
NCmp(a, b) == Apply("NCmp", <<a, b>>)
NMulSmall(a, k) == Apply("NMulSmall", <<a, k>>)
NShlLimbs(a, n) == Apply("NShlLimbs", <<a, n>>)
NMul(a, b) == Apply("NMul", <<a, b>>)
NShl(a, k) == Apply("NShl", <<a, k>>)
NShr(a, k) == Apply("NShr", <<a, k>>)
NBitLen(a) == Apply("NBitLen", <<a>>)
NBit(a, i) == Apply("NBit", <<a, i>>)
NLowZero(a, k) == Apply("NLowZero", <<a, k>>)
NDivSmallFrom(a, k, i, r) == Apply("NDivSmallFrom", <<a, k, i, r>>)
NDivSmall(a, k) == Apply("NDivSmall", <<a, k>>)
NDivLimbs(an, bn, i, r) == Apply("NDivLimbs", <<an, bn, i, r>>)
NDivMod(a, b) == Apply("NDivMod", <<a, b>>)
NPow(k, n) == Apply("NPow", <<k, n>>)
FRound(s, M, e, sticky) == Apply("FRound", <<s, M, e, sticky>>)
MagCmp(a, b) == Apply("MagCmp", <<a, b>>)
FCmp(a, b) == Apply("FCmp", <<a, b>>)
FLt(a, b) == Apply("FLt", <<a, b>>)
FGt(a, b) == Apply("FGt", <<a, b>>)
FLe(a, b) == Apply("FLe", <<a, b>>)
FGe(a, b) == Apply("FGe", <<a, b>>)
FEq(a, b) == Apply("FEq", <<a, b>>)
FMul(a, b) == Apply("FMul", <<a, b>>)
FAddFinite(hi, lo) == Apply("FAddFinite", <<hi, lo>>)
FAdd(a, b) == Apply("FAdd", <<a, b>>)
FSub(a, b) == Apply("FSub", <<a, b>>)
FDiv(a, b) == Apply("FDiv", <<a, b>>)
FromDecimal(s, D, p) == Apply("FromDecimal", <<s, D, p>>)
FInt(i) == Apply("FInt", <<i>>)
IntText(k) == Apply("IntText", <<k>>)
NText(a) == Apply("NText", <<a>>)
NOfText(t) == Apply("NOfText", <<t>>)
RoundHalfEven(v) == Apply("RoundHalfEven", <<v>>)
FOfInteger(i) == Apply("FOfInteger", <<i>>)
ParseFloat(t) == Apply("ParseFloat", <<t>>)
FixedText(v, places) == Apply("FixedText", <<v, places>>)
IntegerText(i) == Apply("IntegerText", <<i>>)
FormatNumber(value) == Apply("FormatNumber", <<value>>)
to_subscript(k) == Apply("to_subscript", <<k>>)
Eye(k) == Apply("Eye", <<k>>)
ScaleRow(r, scalar) == Apply("ScaleRow", <<r, scalar>>)
AddScaledRow(r, factor, q) == Apply("AddScaledRow", <<r, factor, q>>)
MaxRow(a, c, r, best) == Apply("MaxRow", <<a, c, r, best>>)
LUColumn(lu, k) == Apply("LUColumn", <<lu, k>>)
LUFrom(lu, k) == Apply("LUFrom", <<lu, k>>)
DiagProduct(a, k) == Apply("DiagProduct", <<a, k>>)
Det(m) == Apply("Det", <<m>>)
HStack(a, b) == Apply("HStack", <<a, b>>)
LeftBlock(a, k) == Apply("LeftBlock", <<a, k>>)
RightBlock(a, k) == Apply("RightBlock", <<a, k>>)
SwapRows(a, i, j) == Apply("SwapRows", <<a, i, j>>)
GateRejects(m) == Apply("GateRejects", <<m>>)
SwapStep(i, j) == Apply("SwapStep", <<i, j>>)
ScaleStep(i, k) == Apply("ScaleStep", <<i, k>>)
CombineStep(i, j, k) == Apply("CombineStep", <<i, j, k>>)
CallFrame(m) == Apply("CallFrame", <<m>>)
FindPivot(f) == Apply("FindPivot", <<f>>)
Swapping(f) == Apply("Swapping", <<f>>)
SwapPivot(f) == Apply("SwapPivot", <<f>>)
CheckPivot(f) == Apply("CheckPivot", <<f>>)
Scaling(f) == Apply("Scaling", <<f>>)
ScalePivot(f) == Apply("ScalePivot", <<f>>)
NextRow(f) == Apply("NextRow", <<f>>)
Combining(f) == Apply("Combining", <<f>>)
EliminateRow(f) == Apply("EliminateRow", <<f>>)
ReturnInverse(f) == Apply("ReturnInverse", <<f>>)
StepFrame(f) == Apply("StepFrame", <<f>>)
RunFrame(f) == Apply("RunFrame", <<f>>)
GaussJordan(m) == Apply("GaussJordan", <<m>>)
Diag(d) == Apply("Diag", <<d>>)
IntMatrix(a) == Apply("IntMatrix", <<a>>)
Grid(size, text) == Apply("Grid", <<size, text>>)
IsNumeral(t) == Apply("IsNumeral", <<t>>)
GetMatrix(entries) == Apply("GetMatrix", <<entries>>)
DetText(d) == Apply("DetText", <<d>>)
DetLabel(d) == Apply("DetLabel", <<d>>)
StepRows(ss) == Apply("StepRows", <<ss>>)
Cells(size) == Apply("Cells", <<size>>)
ShowResult(labels, inv) == Apply("ShowResult", <<labels, inv>>)
IntGrid(a) == Apply("IntGrid", <<a>>)
Grids(size) == Apply("Grids", <<size>>)

(***************************************************************************)
(* Natural numbers of arbitrary size: little-endian sequences of limbs in  *)
(* 0..Base-1 without leading (most significant) zero limbs; zero is <<>>.  *)
(* The operations are written without recursion over the limbs: carries    *)
(* and borrows are found by looking back along the limbs.                  *)
(*                                                                         *)
(* The model checker works out a definition where its value is first       *)
(* needed, however deep inside other evaluations that is.  A guard         *)
(* Ready(v) asks for the value of v there and then, which keeps the        *)
(* evaluation in the order the definitions are written in.                 *)
(***************************************************************************)
LimbBits == 7 + 7
Base == 2^LimbBits

Ready(v) == v = v

Min(p, q) == IF p < q THEN p ELSE q
Max(p, q) == IF p > q THEN p ELSE q

Limb(a, i) == IF 1 <= i /\ i <= Len(a) THEN a[i] ELSE 0

\* The sequence v (a function constructor of domain 1..n) held as a tuple.
Vec(v) == v \o <<>>

\* v without its most significant zero limbs.
NTrim(v) ==
    LET nz == {i \in 1..Len(v) : v[i] # 0}
    IN  IF nz = {} THEN <<>>
        ELSE SubSeq(v, 1, CHOOSE i \in nz : \A k \in nz : k <= i)

\* A machine integer 0 <= k < Base^2 as a natural.
NOfInt(k) ==
    IF k = 0 THEN <<>>
    ELSE IF k < Base THEN <<k>>
    ELSE <<k % Base, k \div Base>>

\* One pass of carrying over a vector of n machine integers: every entry
\* keeps its low limb and receives what the entry below carries out.
CarryPassImpl(v, n) ==
    Vec([i \in 1..n |-> (Limb(v, i) % Base) + (Limb(v, i - 1) \div Base)])

\* The natural with limb vector t, every entry of which is at most Base: the
\* carry out of limb i is 1 exactly when some limb j <= i equals Base and
\* all limbs between are at least Base - 1.
CarryOutImpl(t, i) ==
    \E j \in 1..i : t[j] >= Base /\ \A k \in (j + 1)..i : t[k] >= Base - 1

NCarryImpl(t) ==
    LET c == Vec([i \in 1..Len(t) |->
                     (t[i] + (IF i > 1 /\ CarryOut(t, i - 1) THEN 1 ELSE 0)) % Base])
    IN  CASE Ready(c) -> NTrim(c)

\* The natural with limb vector v: n entries below 2^30, the top one zero.
NNormalImpl(v, n) ==
    LET p1 == CarryPass(v, n)
        p2 == CarryPass(p1, n)
        p3 == CarryPass(p2, n)
    IN  CASE Ready(p1) /\ Ready(p2) /\ Ready(p3) -> NCarry(p3)

NAddImpl(a, b) ==
    LET n == Max(Len(a), Len(b)) + 1
        v == Vec([i \in 1..n |-> Limb(a, i) + Limb(b, i)])
    IN  CASE Ready(v) -> NCarry(v)

\* a - b for a >= b: the borrow out of limb i is 1 exactly when some limb
\* j <= i of a is below that of b and no limb between is above.
BorrowOutImpl(a, b, i) ==
    \E j \in 1..i : Limb(a, j) < Limb(b, j)
                    /\ \A k \in (j + 1)..i : Limb(a, k) <= Limb(b, k)

NSubImpl(a, b) ==
    LET v == Vec([i \in 1..Len(a) |->
                     (a[i] - Limb(b, i)
                      - (IF i > 1 /\ BorrowOut(a, b, i - 1) THEN 1 ELSE 0)
                      + 2 * Base) % Base])
    IN  CASE Ready(v) -> NTrim(v)

\* -1, 0, 1 as a < b, a = b, a > b.
NCmpImpl(a, b) ==
    IF Len(a) < Len(b) THEN -1
    ELSE IF Len(a) > Len(b) THEN 1
    ELSE LET df == {i \in 1..Len(a) : a[i] # b[i]}
         IN  IF df = {} THEN 0
             ELSE LET t == CHOOSE i \in df : \A k \in df : k <= i
                  IN  IF a[t] < b[t] THEN -1 ELSE 1

\* a * k for a machine integer 0 <= k < Base.
NMulSmallImpl(a, k) ==
    LET n == Len(a) + 1
        v == Vec([i \in 1..n |-> Limb(a, i) * k])
    IN  CASE Ready(v) -> NNormal(v, n)

NShlLimbsImpl(a, n) == IF a = <<>> THEN a ELSE [i \in 1..n |-> 0] \o a

\* a * b, the shorter of the two of at most 7 limbs: column k of the product
\* sums the limb products of weight Base^(k-1).  A column reaches 2^31 only
\* beyond four limb products, so the columns are summed in two halves.
NMulImpl(a, b) ==
    LET x == IF Len(a) <= Len(b) THEN a ELSE b
        y == IF Len(a) <= Len(b) THEN b ELSE a
        n == Len(x) + Len(y) + 1
        lo == Vec([k \in 1..n |->
                      Limb(x, 1) * Limb(y, k) + Limb(x, 2) * Limb(y, k - 1)
                      + Limb(x, 3) * Limb(y, k - 2)])
        hi == Vec([k \in 1..n |->
                      Limb(x, 4) * Limb(y, k - 3) + Limb(x, 5) * Limb(y, k - 4)
                      + Limb(x, 6) * Limb(y, k - 5) + Limb(x, 7) * Limb(y, k - 6)])
        nlo == NNormal(lo, n)
        nhi == NNormal(hi, n)
    IN  CASE Ready(lo) /\ Ready(hi) /\ Ready(nlo) /\ Ready(nhi) -> NAdd(nlo, nhi)

\* a * 2^k and floor(a / 2^k).
NShlImpl(a, k) ==
    LET r == k % LimbBits
        n == Len(a) + 1
        v == Vec([i \in 1..n |->
                     ((Limb(a, i) * 2^r) % Base)
                     + (Limb(a, i - 1) \div 2^(LimbBits - r))])
    IN  CASE Ready(v) -> NShlLimbs(NTrim(v), k \div LimbBits)

NShrImpl(a, k) ==
    LET q == k \div LimbBits
        r == k % LimbBits
        v == Vec([i \in 1..Max(Len(a) - q, 0) |->
                     (a[i + q] \div 2^r)
                     + (Limb(a, i + q + 1) % 2^r) * 2^(LimbBits - r)])
    IN  CASE Ready(v) -> NTrim(v)

\* The number of bits of a machine integer 0 <= k < Base.
IntBitLen(k) == Cardinality({j \in 0..(LimbBits - 1) : 2^j <= k})

NBitLenImpl(a) == IF a = <<>> THEN 0 ELSE (Len(a) - 1) * LimbBits + IntBitLen(a[Len(a)])

\* Bit i (0 = least significant) of a.
NBitImpl(a, i) == (Limb(a, i \div LimbBits + 1) \div 2^(i % LimbBits)) % 2

\* Whether a is a multiple of 2^k.
NLowZeroImpl(a, k) ==
    /\ \A i \in 1..Min(k \div LimbBits, Len(a)) : a[i] = 0
    /\ Limb(a, k \div LimbBits + 1) % 2^(k % LimbBits) = 0

\* <<quotient, remainder>> of a by a machine integer 0 < k < Base, from the
\* top limb down.
NDivSmallFromImpl(a, k, i, r) ==
    IF i = 0 THEN <<<<>>, r>>
    ELSE LET cur == r * Base + a[i]
         IN  CASE Ready(cur) ->
                 LET rest == NDivSmallFrom(a, k, i - 1, cur % k)
                 IN  <<Append(rest[1], cur \div k), rest[2]>>

NDivSmallImpl(a, k) ==
    LET qr == NDivSmallFrom(a, k, Len(a), 0)
    IN  CASE Ready(qr) -> <<NTrim(qr[1]), qr[2]>>

\* Long division, one limb of the dividend at a time from limb i down, for a
\* divisor bn whose top limb is at least Base/2 and a running remainder
\* r < bn: the quotient limb estimated from the two top limbs of the running
\* remainder is at most 2 too large.  <<quotient limbs, remainder>>.
NDivLimbsImpl(an, bn, i, r) ==
    IF i = 0 THEN <<<<>>, r>>
    ELSE LET cur == NTrim(<<an[i]>> \o r)
             n == Len(bn)
             qh == Min(Base - 1, (Limb(cur, n + 1) * Base + Limb(cur, n)) \div bn[n])
             p0 == NMulSmall(bn, qh)
             p1 == IF NCmp(p0, cur) <= 0 THEN p0 ELSE NSub(p0, bn)
             p2 == IF NCmp(p1, cur) <= 0 THEN p1 ELSE NSub(p1, bn)
             qd == IF p0 = p1 THEN qh ELSE IF p1 = p2 THEN qh - 1 ELSE qh - 2
             r2 == NSub(cur, p2)
         IN  CASE Ready(cur) /\ Ready(p0) /\ Ready(p1) /\ Ready(p2) /\ Ready(r2) ->
                 LET rest == NDivLimbs(an, bn, i - 1, r2)
                 IN  <<Append(rest[1], qd), rest[2]>>

\* <<quotient, remainder>> of a by b > 0.
NDivModImpl(a, b) ==
    LET s == LimbBits - IntBitLen(b[Len(b)])
        an == NShl(a, s)
        bn == NShl(b, s)
        top == Min(Len(bn) - 1, Len(an))
        r0 == NTrim(SubSeq(an, Len(an) - top + 1, Len(an)))
        qr == NDivLimbs(an, bn, Len(an) - top, r0)
    IN  CASE Ready(an) /\ Ready(bn) /\ Ready(r0) /\ Ready(qr) ->
            <<NTrim(qr[1]), NShr(qr[2], s)>>

\* k^n for a machine integer 0 < k < Base, by repeated squaring.
NPowImpl(k, n) ==
    IF n = 0 THEN <<1>>
    ELSE LET h == NPow(k, n \div 2)
             sq == NMul(h, h)
         IN  CASE Ready(h) /\ Ready(sq) ->
                 IF n % 2 = 0 THEN sq ELSE NMulSmall(sq, k)

(***************************************************************************)
(* IEEE-754 binary64.  A float is [k, s, e, m]: k is "fin", "inf" or       *)
(* "nan"; s is the sign bit; a finite float has the value                  *)
(* (-1)^s * m * 2^e with m < 2^53.  The representation is canonical: a     *)
(* normal number has a 53-bit m and MinExp <= e <= MaxExp, a subnormal     *)
(* one has e = MinExp and a shorter m, zero has m = 0 and e = MinExp.      *)
(***************************************************************************)
Precision == 50 + 3
MinExp == 0 - 1074
MaxExp == 1024 - Precision

FNan == [k |-> "nan", s |-> 0, e |-> 0, m |-> <<>>]
FInf(s) == [k |-> "inf", s |-> s, e |-> 0, m |-> <<>>]
FZero(s) == [k |-> "fin", s |-> s, e |-> MinExp, m |-> <<>>]

IsNan(a) == a.k = "nan"
IsInf(a) == a.k = "inf"
IsFinite(a) == a.k = "fin"
IsZero(a) == a.k = "fin" /\ a.m = <<>>

\* The float nearest to (-1)^s * (M + f) * 2^e, where M is a natural and
\* 0 <= f < 1 with f > 0 exactly when sticky; ties go to the even
\* significand.  With sticky set, M has at least Precision + 2 bits.
FRoundImpl(s, M, e, sticky) ==
    LET L == NBitLen(M)
        et == Max(e + L - Precision, MinExp)
        sh == et - e
        q == IF sh <= 0 THEN NShl(M, 0 - sh) ELSE NShr(M, sh)
        half == sh > 0 /\ NBit(M, sh - 1) = 1
        rest == sh > 0 /\ (sticky \/ ~NLowZero(M, sh - 1))
        up == half /\ (rest \/ NBit(q, 0) = 1)
        m1 == IF up THEN NAdd(q, <<1>>) ELSE q
        carry == NBitLen(m1) > Precision
        m2 == IF carry THEN NShr(m1, 1) ELSE m1
        e2 == IF carry THEN et + 1 ELSE et
    IN  CASE Ready(M) /\ Ready(q) /\ Ready(m1) /\ Ready(m2) ->
            IF m2 = <<>> THEN FZero(s)
            ELSE IF e2 > MaxExp THEN FInf(s)
            ELSE [k |-> "fin", s |-> s, e |-> e2, m |-> m2]

FNeg(a) == IF IsNan(a) THEN a ELSE [a EXCEPT !.s = 1 - a.s]
FAbs(a) == IF IsNan(a) THEN a ELSE [a EXCEPT !.s = 0]

\* -1, 0, 1 as |a| < |b|, |a| = |b|, |a| > |b|, for a and b not NaN.
MagCmpImpl(a, b) ==
    IF IsInf(a) \/ IsInf(b)
    THEN (IF IsInf(a) /\ IsInf(b) THEN 0 ELSE IF IsInf(a) THEN 1 ELSE -1)
    ELSE IF a.m = <<>> \/ b.m = <<>>
    THEN (IF a.m = b.m THEN 0 ELSE IF a.m = <<>> THEN -1 ELSE 1)
    ELSE IF a.e # b.e THEN (IF a.e < b.e THEN -1 ELSE 1)
    ELSE NCmp(a.m, b.m)

\* -1, 0, 1 as a < b, a = b, a > b, for a and b not NaN (-0 = +0).
FCmpImpl(a, b) ==
    IF IsZero(a) /\ IsZero(b) THEN 0
    ELSE IF a.s # b.s THEN (IF a.s = 1 THEN -1 ELSE 1)
    ELSE IF a.s = 0 THEN MagCmp(a, b)
    ELSE 0 - MagCmp(a, b)

\* Every comparison with a NaN is false.
FLtImpl(a, b) == ~IsNan(a) /\ ~IsNan(b) /\ FCmp(a, b) < 0
FGtImpl(a, b) == FLt(b, a)
FLeImpl(a, b) == ~IsNan(a) /\ ~IsNan(b) /\ FCmp(a, b) <= 0
FGeImpl(a, b) == FLe(b, a)
FEqImpl(a, b) == ~IsNan(a) /\ ~IsNan(b) /\ FCmp(a, b) = 0

FMulImpl(a, b) ==
    LET s == (a.s + b.s) % 2
        M == NMul(a.m, b.m)
    IN  IF IsNan(a) \/ IsNan(b) THEN FNan
        ELSE IF IsInf(a) \/ IsInf(b)
        THEN (IF IsZero(a) \/ IsZero(b) THEN FNan ELSE FInf(s))
        ELSE IF a.m = <<>> \/ b.m = <<>> THEN FZero(s)
        ELSE CASE Ready(M) -> FRound(s, M, a.e + b.e, FALSE)

\* The sum of two finite nonzero floats, hi the one of larger exponent.
\* An operand more than FarApart binary places below the other only
\* decides the direction of rounding.
FarApart == 60
FAddFiniteImpl(hi, lo) ==
    LET d == hi.e - lo.e
        same == hi.s = lo.s
        H == NShl(hi.m, Min(d, FarApart))
        c == NCmp(H, lo.m)
        far == IF same THEN NShl(hi.m, 2) ELSE NSub(NShl(hi.m, 2), <<1>>)
        M == IF d > FarApart THEN far
             ELSE IF same THEN NAdd(H, lo.m)
             ELSE IF c > 0 THEN NSub(H, lo.m)
             ELSE NSub(lo.m, H)
    IN  CASE Ready(H) /\ Ready(M) ->
            IF d > FarApart THEN FRound(hi.s, M, hi.e - 2, TRUE)
            ELSE IF ~same /\ c = 0 THEN FZero(0)
            ELSE FRound(IF same \/ c > 0 THEN hi.s ELSE lo.s, M, lo.e, FALSE)

FAddImpl(a, b) ==
    IF IsNan(a) \/ IsNan(b) THEN FNan
    ELSE IF IsInf(a) /\ IsInf(b) THEN (IF a.s = b.s THEN a ELSE FNan)
    ELSE IF IsInf(a) THEN a
    ELSE IF IsInf(b) THEN b
    ELSE IF a.m = <<>> /\ b.m = <<>> THEN (IF a.s = 1 /\ b.s = 1 THEN FZero(1) ELSE FZero(0))
    ELSE IF a.m = <<>> THEN b
    ELSE IF b.m = <<>> THEN a
    ELSE IF a.e >= b.e THEN FAddFinite(a, b)
    ELSE FAddFinite(b, a)

FSubImpl(a, b) == FAdd(a, FNeg(b))

\* a / b in float64 arithmetic; division by zero gives an infinity.
FDivImpl(a, b) ==
    LET s == (a.s + b.s) % 2
        k == Precision + 3 + NBitLen(b.m) - NBitLen(a.m)
        N == NShl(a.m, k)
        qr == NDivMod(N, b.m)
    IN  IF IsNan(a) \/ IsNan(b) THEN FNan
        ELSE IF IsInf(a) THEN (IF IsInf(b) THEN FNan ELSE FInf(s))
        ELSE IF IsInf(b) THEN FZero(s)
        ELSE IF b.m = <<>> THEN (IF a.m = <<>> THEN FNan ELSE FInf(s))
        ELSE IF a.m = <<>> THEN FZero(s)
        ELSE CASE Ready(N) /\ Ready(qr) ->
                 FRound(s, qr[1], a.e - b.e - k, qr[2] # <<>>)

\* The float nearest to (-1)^s * D * 10^p for a natural D.
FromDecimalImpl(s, D, p) ==
    LET T == NPow(10, IF p >= 0 THEN p ELSE 0 - p)
        k == Precision + 3 + NBitLen(T)
        M == NMul(D, T)
        N == NShl(D, k)
        qr == NDivMod(N, T)
    IN  IF D = <<>> THEN FZero(s)
        ELSE IF p >= 0 THEN (CASE Ready(T) /\ Ready(M) -> FRound(s, M, 0, FALSE))
        ELSE CASE Ready(T) /\ Ready(N) /\ Ready(qr) ->
                 FRound(s, qr[1], 0 - k, qr[2] # <<>>)

\* A machine integer as a float.
FIntImpl(i) == IF i < 0 THEN FromDecimal(1, NOfInt(0 - i), 0) ELSE FromDecimal(0, NOfInt(i), 0)

(***************************************************************************)
(* Text.  A string is modelled as the sequence of its characters, so that  *)
(* it can be built by formatting and read back by parsing.                 *)
(***************************************************************************)
Digits == <<"0", "1", "2", "3", "4", "5", "6", "7", "8", "9">>
DigitValue(c) == CHOOSE d \in 0..9 : Digits[d + 1] = c
IsDigit(c) == \E d \in 0..9 : Digits[d + 1] = c

\* str(k) for a machine integer 0 <= k: its decimal digits.
IntTextImpl(k) == IF k < 10 THEN <<Digits[k + 1]>> ELSE Append(IntText(k \div 10), Digits[(k % 10) + 1])

\* The decimal digits of the natural a, most significant first ("0" for 0),
\* four at a time.
Group == 10000
GroupText(g) ==
    <<Digits[(g \div 1000) + 1], Digits[((g \div 100) % 10) + 1],
      Digits[((g \div 10) % 10) + 1], Digits[(g % 10) + 1]>>

NTextImpl(a) ==
    IF Len(a) <= 1 THEN IntText(Limb(a, 1))
    ELSE LET qr == NDivSmall(a, Group)
             hd == NText(qr[1])
         IN  CASE Ready(qr) /\ Ready(hd) -> hd \o GroupText(qr[2])

\* The natural written by a sequence of decimal digits.
NOfTextImpl(t) ==
    IF t = <<>> THEN <<>>
    ELSE LET hd == NOfText(SubSeq(t, 1, Len(t) - 1))
             ten == NMulSmall(hd, 10)
         IN  CASE Ready(hd) /\ Ready(ten) -> NAdd(ten, NOfInt(DigitValue(t[Len(t)])))

\* round(value) for a finite float: the nearest integer, ties to even, as
\* <<sign, natural>>.
RoundHalfEvenImpl(v) ==
    LET sh == 0 - v.e
        q == IF sh <= 0 THEN NShl(v.m, 0 - sh) ELSE NShr(v.m, sh)
        half == sh > 0 /\ NBit(v.m, sh - 1) = 1
        rest == sh > 0 /\ ~NLowZero(v.m, sh - 1)
        up == half /\ (rest \/ NBit(q, 0) = 1)
        r == IF up THEN NAdd(q, <<1>>) ELSE q
    IN  CASE Ready(q) /\ Ready(r) -> <<v.s, r>>

\* An integer <<sign, natural>> as a float.
FOfIntegerImpl(i) == FRound(i[1], i[2], 0, FALSE)

\* float(text) for a text of the form [-]digits[.digits].
ParseFloatImpl(t) ==
    LET neg == t # <<>> /\ t[1] = "-"
        body == IF neg THEN SubSeq(t, 2, Len(t)) ELSE t
        dots == {i \in 1..Len(body) : body[i] = "."}
        dot == IF dots = {} THEN Len(body) + 1 ELSE CHOOSE i \in dots : TRUE
        digits == SubSeq(body, 1, dot - 1) \o SubSeq(body, dot + 1, Len(body))
        D == NOfText(digits)
    IN  CASE Ready(D) -> FromDecimal(IF neg THEN 1 ELSE 0, D, 0 - Max(Len(body) - dot, 0))

\* f"{value:.<places>f}" for a finite float: the value rounded (ties to
\* even) to the given number of decimal places.
FixedTextImpl(v, places) ==
    LET T == NPow(10, places)
        scaled == NMul(v.m, T)
        sh == 0 - v.e
        q == IF sh <= 0 THEN NShl(scaled, 0 - sh) ELSE NShr(scaled, sh)
        half == sh > 0 /\ NBit(scaled, sh - 1) = 1
        rest == sh > 0 /\ ~NLowZero(scaled, sh - 1)
        up == half /\ (rest \/ NBit(q, 0) = 1)
        r == IF up THEN NAdd(q, <<1>>) ELSE q
        qr == NDivMod(r, T)
        whole == NText(qr[1])
        frac == NText(qr[2])
    IN  CASE Ready(scaled) /\ Ready(q) /\ Ready(r) /\ Ready(qr)
             /\ Ready(whole) /\ Ready(frac) ->
            (IF v.s = 1 THEN <<"-">> ELSE <<>>) \o whole \o <<".">>
            \o [i \in 1..(places - Len(frac)) |-> "0"] \o frac

(***************************************************************************)
(* format_number and to_subscript.                                         *)
(***************************************************************************)
Eps == FromDecimal(0, <<1>>, 0 - 10)
One == FInt(1)

IntegerTextImpl(i) == (IF i[1] = 1 /\ i[2] # <<>> THEN <<"-">> ELSE <<>>) \o NText(i[2])

\* format_number(value): the text, or the exception that round() raises.
FormatNumberImpl(value) ==
    IF IsNan(value) THEN [raised |-> "ValueError", text |-> <<>>]
    ELSE IF IsInf(value) THEN [raised |-> "OverflowError", text |-> <<>>]
    ELSE IF FLt(FAbs(value), Eps) THEN [raised |-> "", text |-> <<"0">>]
    ELSE LET r == RoundHalfEven(value)
             d == FAbs(FSub(value, FOfInteger(r)))
         IN  CASE Ready(r) /\ Ready(d) ->
                 IF FLt(d, Eps) THEN [raised |-> "", text |-> IntegerText(r)]
                 ELSE [raised |-> "", text |-> FixedText(value, 4)]

SUBSCRIPT_DIGITS == <<"_0", "_1", "_2", "_3", "_4", "_5", "_6", "_7", "_8", "_9">>
to_subscriptImpl(k) ==
    LET t == IntText(k) IN Vec([i \in 1..Len(t) |-> SUBSCRIPT_DIGITS[DigitValue(t[i]) + 1]])

(***************************************************************************)
(* Arrays.  A matrix is a sequence of rows, a row a sequence of floats;    *)
(* the code's 0-based index k is position k + 1.                           *)
(***************************************************************************)
At(a, i, j) == a[i + 1][j + 1]
EyeImpl(k) == Vec([i \in 1..k |-> Vec([j \in 1..k |-> IF i = j THEN One ELSE FZero(0)])])
HStackImpl(a, b) == Vec([i \in 1..Len(a) |-> a[i] \o b[i]])
LeftBlockImpl(a, k) == Vec([i \in 1..Len(a) |-> SubSeq(a[i], 1, k)])
RightBlockImpl(a, k) == Vec([i \in 1..Len(a) |-> SubSeq(a[i], k + 1, Len(a[i]))])
SwapRowsImpl(a, i, j) == [a EXCEPT ![i + 1] = a[j + 1], ![j + 1] = a[i + 1]]
ScaleRowImpl(r, scalar) == Vec([j \in 1..Len(r) |-> FMul(r[j], scalar)])
AddScaledRowImpl(r, factor, q) == Vec([j \in 1..Len(r) |-> FAdd(r[j], FMul(factor, q[j]))])

\* The pivot search keeping the last largest row.
MaxRowLast(a, c, r, best) ==
    IF r >= Len(a) THEN best
    ELSE MaxRow(a, c, r + 1,
                IF FGe(FAbs(At(a, r, c)), FAbs(At(a, best, c))) THEN r ELSE best)

\* The pivot search: rows row..k-1 of the column, keeping the first largest.
MaxRowImpl(a, c, r, best) ==
    IF r >= Len(a) THEN best
    ELSE MaxRow(a, c, r + 1,
                IF FGt(FAbs(At(a, r, c)), FAbs(At(a, best, c))) THEN r ELSE best)

(***************************************************************************)
(* np.linalg.det: LU factorisation with partial pivoting, then the signed  *)
(* product of the diagonal of U.                                           *)
(***************************************************************************)
\* Column k of the factorisation of lu = [a |-> array, sign |-> +1 or -1].
LUColumnImpl(lu, k) ==
    LET p == MaxRow(lu.a, k, k + 1, k)
        b == SwapRows(lu.a, k, p)
        r == FDiv(One, At(b, k, k))
        c == Vec([i \in 1..Len(b) |->
                 IF i - 1 <= k THEN b[i]
                 ELSE LET l == FMul(At(b, i - 1, k), r)
                      IN  Vec([j \in 1..Len(b) |->
                              IF j - 1 <= k THEN b[i][j]
                              ELSE FSub(b[i][j], FMul(l, At(b, k, j - 1)))])])
    IN  IF IsZero(At(lu.a, p, k)) THEN lu
        ELSE CASE Ready(b) /\ Ready(r) /\ Ready(c) ->
                 [a |-> c, sign |-> IF p # k THEN 0 - lu.sign ELSE lu.sign]

LUFromImpl(lu, k) ==
    IF k >= Len(lu.a) THEN lu
    ELSE LET next == LUColumn(lu, k) IN CASE Ready(next) -> LUFrom(next, k + 1)

DiagProductImpl(a, k) ==
    IF k = 0 THEN One
    ELSE LET head == DiagProduct(a, k - 1) IN CASE Ready(head) -> FMul(head, a[k][k])

DetImpl(m) ==
    LET lu == LUFrom([a |-> m, sign |-> 1], 0)
        d == DiagProduct(lu.a, Len(m))
    IN  CASE Ready(lu) /\ Ready(d) -> IF lu.sign < 0 THEN FNeg(d) ELSE d

\* The determinant gate of calculate_inverse: np.abs(det) < 1e-10.
GateRejectsImpl(m) == FLt(FAbs(Det(m)), Eps)

(***************************************************************************)
(* gauss_jordan_inverse, one frame per call.  applied is the history of    *)
(* the row operations carried out on augmented, with the scalars used.     *)
(***************************************************************************)
\* The recorded steps: (1, "Ei,j"), (2, "Ei(k)"), (3, "Ei,j(k)").
SwapStepImpl(i, j) == <<1, <<"E">> \o to_subscript(i + 1) \o <<",">> \o to_subscript(j + 1)>>
ScaleStepImpl(i, k) == <<2, <<"E">> \o to_subscript(i + 1) \o <<"(">> \o k \o <<")">> >>
\* A combine step rendered with its two rows exchanged.
CombineStepExchanged(i, j, k) ==
    <<3, <<"E">> \o to_subscript(j + 1) \o <<",">> \o to_subscript(i + 1)
         \o <<"(">> \o k \o <<")">> >>

CombineStepImpl(i, j, k) ==
    <<3, <<"E">> \o to_subscript(i + 1) \o <<",">> \o to_subscript(j + 1)
         \o <<"(">> \o k \o <<")">> >>

CallFrameImpl(m) ==
    [matrix |-> m, n |-> Len(m), steps |-> <<>>, augmented |-> HStack(m, Eye(Len(m))),
     col |-> 0, max_row |-> 0, row |-> 0, inverse |-> <<>>, applied |-> <<>>,
     raised |-> "", pc |-> IF Len(m) > 0 THEN "pivot" ELSE "return"]

FindPivotImpl(f) == [f EXCEPT !.max_row = MaxRow(f.augmented, f.col, f.col + 1, f.col), !.pc = "swap"]

\* Lines 815-816: the two rows exchanged, without and with the step recorded.
SwapUnrecorded(f) ==
    [f EXCEPT !.augmented = SwapRows(f.augmented, f.col, f.max_row),
              !.applied = Append(f.applied, <<1, f.col, f.max_row>>),
              !.pc = "check"]

SwappingImpl(f) == [SwapUnrecorded(f) EXCEPT !.steps = Append(f.steps, SwapStep(f.col, f.max_row))]

\* The exchange carried out and recorded whatever the two rows are.
SwapPivotAlways(f) == Swapping(f)

SwapPivotImpl(f) == IF f.max_row # f.col THEN Swapping(f) ELSE [f EXCEPT !.pc = "check"]

CheckPivotImpl(f) ==
    IF FLt(FAbs(At(f.augmented, f.col, f.col)), Eps)
    THEN [f EXCEPT !.raised = "LinAlgError", !.pc = "raised"]
    ELSE [f EXCEPT !.pc = "scale"]

\* The scaling applied to the first N columns of the pivot row only.
ScalingLeftBlock(f) ==
    LET scalar == FDiv(One, At(f.augmented, f.col, f.col))
        r == f.augmented[f.col + 1]
        scaled == [f.augmented EXCEPT ![f.col + 1] =
                      ScaleRow(SubSeq(r, 1, f.n), scalar) \o SubSeq(r, f.n + 1, Len(r))]
    IN  [f EXCEPT !.augmented = scaled,
                  !.steps = Append(f.steps, ScaleStep(f.col, FormatNumber(scalar).text)),
                  !.applied = Append(f.applied, <<2, f.col, scalar>>),
                  !.row = 0, !.pc = "eliminate"]

\* Lines 825-827: the pivot row multiplied by 1.0 / pivot, then the step.
ScalingImpl(f) ==
    LET scalar == FDiv(One, At(f.augmented, f.col, f.col))
        scaled == [f.augmented EXCEPT ![f.col + 1] = ScaleRow(f.augmented[f.col + 1], scalar)]
        shown == FormatNumber(scalar)
    IN  CASE Ready(scalar) /\ Ready(scaled) /\ Ready(shown) ->
            IF shown.raised # ""
            THEN [f EXCEPT !.augmented = scaled, !.raised = shown.raised, !.pc = "raised"]
            ELSE [f EXCEPT !.augmented = scaled,
                           !.steps = Append(f.steps, ScaleStep(f.col, shown.text)),
                           !.applied = Append(f.applied, <<2, f.col, scalar>>),
                           !.row = 0, !.pc = "eliminate"]

ScaleAlways(f) == Scaling(f)

ScalePivotImpl(f) ==
    IF FGt(FAbs(FSub(At(f.augmented, f.col, f.col), One)), Eps)
    THEN Scaling(f)
    ELSE [f EXCEPT !.row = 0, !.pc = "eliminate"]

\* Leaving the last row without moving to the next column.
NextRowSameColumn(f) ==
    IF f.row + 1 < f.n THEN [f EXCEPT !.row = f.row + 1]
    ELSE IF f.col + 1 < f.n THEN [f EXCEPT !.pc = "pivot"]
    ELSE [f EXCEPT !.pc = "return"]

\* Leaving row f.row of the elimination loop: the next row, the next column,
\* or the end of both loops.
NextRowImpl(f) ==
    IF f.row + 1 < f.n THEN [f EXCEPT !.row = f.row + 1]
    ELSE IF f.col + 1 < f.n THEN [f EXCEPT !.col = f.col + 1, !.pc = "pivot"]
    ELSE [f EXCEPT !.pc = "return"]

\* The combination with its step put at the head of the list.
CombiningPrepended(f) ==
    LET factor == FNeg(At(f.augmented, f.row, f.col))
        combined == [f.augmented EXCEPT ![f.row + 1] =
                        AddScaledRow(f.augmented[f.row + 1], factor, f.augmented[f.col + 1])]
        shown == FormatNumber(factor)
    IN  CASE Ready(combined) /\ Ready(shown) ->
            IF shown.raised # ""
            THEN [f EXCEPT !.augmented = combined, !.raised = shown.raised, !.pc = "raised"]
            ELSE NextRow([f EXCEPT !.augmented = combined,
                           !.steps = <<CombineStep(f.row, f.col, shown.text)>> \o f.steps,
                           !.applied = Append(f.applied, <<3, f.row, f.col, factor>>)])

\* Lines 832-834: factor times the pivot row added to the row, then the step.
CombiningImpl(f) ==
    LET factor == FNeg(At(f.augmented, f.row, f.col))
        combined == [f.augmented EXCEPT ![f.row + 1] =
                        AddScaledRow(f.augmented[f.row + 1], factor, f.augmented[f.col + 1])]
        shown == FormatNumber(factor)
    IN  CASE Ready(combined) /\ Ready(shown) ->
            IF shown.raised # ""
            THEN [f EXCEPT !.augmented = combined, !.raised = shown.raised, !.pc = "raised"]
            ELSE NextRow([f EXCEPT !.augmented = combined,
                           !.steps = Append(f.steps, CombineStep(f.row, f.col, shown.text)),
                           !.applied = Append(f.applied, <<3, f.row, f.col, factor>>)])

\* The elimination acting on the caller's array as well as on augmented.
CombineInPlace(f) ==
    IF f.row # f.col /\ FGt(FAbs(At(f.augmented, f.row, f.col)), Eps)
    THEN LET g == Combining(f) IN [g EXCEPT !.matrix = LeftBlock(g.augmented, g.n)]
    ELSE NextRow(f)

EliminateRowImpl(f) ==
    IF f.row # f.col /\ FGt(FAbs(At(f.augmented, f.row, f.col)), Eps)
    THEN Combining(f)
    ELSE NextRow(f)

ReturnInverseImpl(f) == [f EXCEPT !.inverse = RightBlock(f.augmented, f.n), !.pc = "returned"]

Finished(f) == f.pc \in {"returned", "raised"}

StepFrameImpl(f) ==
    CASE f.pc = "pivot" -> FindPivot(f)
      [] f.pc = "swap" -> SwapPivot(f)
      [] f.pc = "check" -> CheckPivot(f)
      [] f.pc = "scale" -> ScalePivot(f)
      [] f.pc = "eliminate" -> EliminateRow(f)
      [] f.pc = "return" -> ReturnInverse(f)

RunFrameImpl(f) ==
    IF Finished(f) THEN f
    ELSE LET g == StepFrame(f) IN CASE Ready(g) -> RunFrame(g)

\* gauss_jordan_inverse(m) run to its end.
GaussJordanImpl(m) == RunFrame(CallFrame(m))

(***************************************************************************)
(* Inputs.  The arrays handed to gauss_jordan_inverse: every 2 x 2 matrix  *)
(* and every diagonal matrix of up to MaxN rows over the first NumVals     *)
(* values, and the scenario matrices.                                      *)
(***************************************************************************)
NumVals == 3
MaxN == 3

Values ==
    <<FInt(0), FInt(1), FInt(2), FromDecimal(0, <<1>>, 11), FInt(3),
      FromDecimal(0, <<1>>, 0 - 11), FromDecimal(0, <<1>>, 0 - 6), FInt(0 - 1),
      FromDecimal(0, <<5>>, 0 - 1), FInt(4)>>
Tiny == Values[6]
Huge == Values[4]
Micro == Values[7]
Vals == {Values[i] : i \in 1..NumVals}

\* 2^1000 and 2^-30: scaling a row that holds both by 2^30 overflows.
Large == [k |-> "fin", s |-> 0, e |-> 1000 - (Precision - 1), m |-> NShl(<<1>>, Precision - 1)]
Small == [k |-> "fin", s |-> 0, e |-> 0 - (30 + (Precision - 1)), m |-> NShl(<<1>>, Precision - 1)]

\* 1.00000000005: a pivot that line 824 takes for 1.0.
NearOne == FromDecimal(0, NOfText(<<"1", "0", "0", "0", "0", "0", "0", "0", "0", "0", "0", "5">>), 0 - 11)

DiagImpl(d) == Vec([i \in 1..Len(d) |-> Vec([j \in 1..Len(d) |-> IF i = j THEN d[i] ELSE FZero(0)])])
IntMatrixImpl(a) == Vec([i \in 1..Len(a) |-> Vec([j \in 1..Len(a[i]) |-> FInt(a[i][j])])])

Scenarios ==
    { IntMatrix(<<<<4, 7>>, <<2, 6>>>>),
      IntMatrix(<<<<1, 2>>, <<2, 4>>>>),
      IntMatrix(<<<<0, 1, 2>>, <<1, 0, 3>>, <<4, 0 - 3, 8>>>>),
      IntMatrix(<<<<2, 1, 1>>, <<1, 3, 2>>, <<1, 0, 0>>>>),
      IntMatrix(<<<<1, 2, 3>>, <<4, 5, 6>>, <<7, 8, 9>>>>),
      <<<<FZero(0), Tiny>>, <<Huge, FZero(0)>>>>,
      <<<<FZero(0), Micro>>, <<Micro, FZero(0)>>>>,
      <<<<FZero(0), One>>, <<Huge, One>>>>,
      <<<<Huge, Huge>>, <<Huge, Huge>>>>,
      <<<<Huge>>>>,
      <<<<Small, Large>>, <<FZero(0), One>>>>,
      <<<<One, Huge>>, <<FZero(0), NearOne>>>> }

Inputs ==
    {<<<<a, b>>, <<c, d>>>> : a \in Vals, b \in Vals, c \in Vals, d \in Vals}
    \cup UNION {{Diag(d) : d \in [1..k -> Vals]} : k \in 1..MaxN}
    \cup Scenarios

(***************************************************************************)
(* The handlers of the application window.                                 *)
(***************************************************************************)
None == <<>>
Dash == <<"--">>
MinSize == 2
DefaultSize == 3
MaxSize == 3

GridImpl(size, text) == Vec([i \in 1..size |-> Vec([j \in 1..size |-> text])])

\* float(text) for the texts entered here: [-]digits[.digits] is a number,
\* anything else raises ValueError.
IsNumeralImpl(t) ==
    LET body == IF t # <<>> /\ t[1] = "-" THEN Tail(t) ELSE t
    IN  /\ \E i \in 1..Len(body) : IsDigit(body[i])
        /\ \A i \in 1..Len(body) : IsDigit(body[i]) \/ body[i] = "."
        /\ Cardinality({i \in 1..Len(body) : body[i] = "."}) <= 1

\* get_matrix reading an entry that is no number as zero.
GetMatrixLenient(entries) ==
    [raised |-> "",
     matrix |-> Vec([i \in 1..Len(entries) |->
                    Vec([j \in 1..Len(entries) |->
                        IF IsNumeral(entries[i][j]) THEN ParseFloat(entries[i][j])
                        ELSE FZero(0)])])]

\* get_matrix: the array of the entries, or ValueError.
GetMatrixImpl(entries) ==
    IF \A i \in 1..Len(entries) : \A j \in 1..Len(entries) : IsNumeral(entries[i][j])
    THEN [raised |-> "",
          matrix |-> Vec([i \in 1..Len(entries) |->
                         Vec([j \in 1..Len(entries) |-> ParseFloat(entries[i][j])])])]
    ELSE [raised |-> "ValueError", matrix |-> None]

\* f"Determinant: {det:.6f}"
DetTextImpl(d) ==
    IF IsNan(d) THEN <<"n", "a", "n">>
    ELSE IF IsInf(d) THEN (IF d.s = 1 THEN <<"-">> ELSE <<>>) \o <<"i", "n", "f">>
    ELSE FixedText(d, 6)
DetLabelImpl(d) == <<"Determinant: ">> \o DetText(d)

\* display_steps: one table row per step, its type and its operation.
StepRowsImpl(ss) == Vec([k \in 1..Len(ss) |-> <<IntText(ss[k][1]), ss[k][2]>>])

\* The result loop of calculate_inverse, lines 913-918: the labels after the
\* cells before the first one whose format_number raises have been set.
CellsImpl(size) == Vec([k \in 1..(size * size) |-> <<((k - 1) \div size) + 1, ((k - 1) % size) + 1>>])
ShowResultImpl(labels, inv) ==
    LET cells == Cells(Len(inv))
        shown == Vec([k \in 1..Len(cells) |-> FormatNumber(inv[cells[k][1]][cells[k][2]])])
        bad == {k \in 1..Len(cells) : shown[k].raised # ""}
        stop == IF bad = {} THEN Len(cells) + 1 ELSE CHOOSE k \in bad : \A h \in bad : k <= h
    IN  [raised |-> IF bad = {} THEN "" ELSE shown[stop].raised,
         labels |-> Vec([i \in 1..Len(inv) |-> Vec([j \in 1..Len(inv) |->
                        IF ((i - 1) * Len(inv)) + j < stop
                        THEN shown[((i - 1) * Len(inv)) + j].text
                        ELSE labels[i][j]])])]

\* The dialog an exception leaving the try block ends in: ValueError and
\* LinAlgError are caught, anything else leaves the handler.
Dialog(exception) ==
    CASE exception = "ValueError" -> "Input Error"
      [] exception = "LinAlgError" -> "Calculation Error"
      [] OTHER -> exception

\* The grids a user types into the entries of a window of the given size.
IntGridImpl(a) ==
    Vec([i \in 1..Len(a) |-> Vec([j \in 1..Len(a) |->
        IF a[i][j] < 0 THEN <<"-">> \o IntText(0 - a[i][j]) ELSE IntText(a[i][j])])])
HugeText == NText(NPow(10, 11))
TinyText == <<"0", ".", "0", "0", "0", "0", "0", "0", "0", "0", "0", "0", "1">>

GridsImpl(size) ==
    {IntGrid([i \in 1..size |-> [j \in 1..size |-> IF i = j THEN 1 ELSE 0]])}
    \cup (IF size = 2
          THEN { IntGrid(<<<<4, 7>>, <<2, 6>>>>),
                 IntGrid(<<<<1, 2>>, <<2, 4>>>>),
                 <<<<<<"0">>, TinyText>>, <<HugeText, <<"0">>>>>>,
                 <<<<<<"x">>, <<"1">>>>, <<<<"1">>, <<"1">>>>>>,
                 <<<<<<"1">>, <<"2">>>>, <<<<"3">>, <<>>>>>> }
          ELSE IF size = 3
          THEN { IntGrid(<<<<2, 0, 0>>, <<0, 2, 0>>, <<0, 0, 2>>>>),
                 IntGrid(<<<<0, 1, 2>>, <<1, 0, 3>>, <<4, 0 - 3, 8>>>>),
                 IntGrid(<<<<1, 2, 3>>, <<4, 5, 6>>, <<7, 8, 9>>>>) }
          ELSE {})

\* Every operator above, applied by name to the tuple of its arguments.
Apply(op, x) ==
    CASE op = "NAdd" -> NAddImpl(x[1], x[2])
      [] op = "NSub" -> NSubImpl(x[1], x[2])
      [] op = "NCmp" -> NCmpImpl(x[1], x[2])
      [] op = "NShl" -> NShlImpl(x[1], x[2])
      [] op = "NShr" -> NShrImpl(x[1], x[2])
      [] op = "NBitLen" -> NBitLenImpl(x[1])
      [] op = "NBit" -> NBitImpl(x[1], x[2])
      [] op = "NLowZero" -> NLowZeroImpl(x[1], x[2])
      [] op = "NNormal" -> NNormalImpl(x[1], x[2])
      [] op = "CarryPass" -> CarryPassImpl(x[1], x[2])
      [] op = "NCarry" -> NCarryImpl(x[1])
      [] op = "CarryOut" -> CarryOutImpl(x[1], x[2])
      [] op = "BorrowOut" -> BorrowOutImpl(x[1], x[2], x[3])
      [] op = "NMulSmall" -> NMulSmallImpl(x[1], x[2])
      [] op = "NShlLimbs" -> NShlLimbsImpl(x[1], x[2])
      [] op = "NMul" -> NMulImpl(x[1], x[2])
      [] op = "FRound" -> FRoundImpl(x[1], x[2], x[3], x[4])
      [] op = "MagCmp" -> MagCmpImpl(x[1], x[2])
      [] op = "FCmp" -> FCmpImpl(x[1], x[2])
      [] op = "FLt" -> FLtImpl(x[1], x[2])
      [] op = "FGt" -> FGtImpl(x[1], x[2])
      [] op = "FLe" -> FLeImpl(x[1], x[2])
      [] op = "FGe" -> FGeImpl(x[1], x[2])
      [] op = "FEq" -> FEqImpl(x[1], x[2])
      [] op = "FMul" -> FMulImpl(x[1], x[2])
      [] op = "FAddFinite" -> FAddFiniteImpl(x[1], x[2])
      [] op = "FAdd" -> FAddImpl(x[1], x[2])
      [] op = "FSub" -> FSubImpl(x[1], x[2])
      [] op = "FDiv" -> FDivImpl(x[1], x[2])
      [] op = "NDivLimbs" -> NDivLimbsImpl(x[1], x[2], x[3], x[4])
      [] op = "NDivMod" -> NDivModImpl(x[1], x[2])
      [] op = "NDivSmallFrom" -> NDivSmallFromImpl(x[1], x[2], x[3], x[4])
      [] op = "NDivSmall" -> NDivSmallImpl(x[1], x[2])
      [] op = "NPow" -> NPowImpl(x[1], x[2])
      [] op = "FromDecimal" -> FromDecimalImpl(x[1], x[2], x[3])
      [] op = "FInt" -> FIntImpl(x[1])
      [] op = "IntText" -> IntTextImpl(x[1])
      [] op = "NText" -> NTextImpl(x[1])
      [] op = "NOfText" -> NOfTextImpl(x[1])
      [] op = "RoundHalfEven" -> RoundHalfEvenImpl(x[1])
      [] op = "FOfInteger" -> FOfIntegerImpl(x[1])
      [] op = "ParseFloat" -> ParseFloatImpl(x[1])
      [] op = "FixedText" -> FixedTextImpl(x[1], x[2])
      [] op = "IntegerText" -> IntegerTextImpl(x[1])
      [] op = "FormatNumber" -> FormatNumberImpl(x[1])
      [] op = "to_subscript" -> to_subscriptImpl(x[1])
      [] op = "Eye" -> EyeImpl(x[1])
      [] op = "ScaleRow" -> ScaleRowImpl(x[1], x[2])
      [] op = "AddScaledRow" -> AddScaledRowImpl(x[1], x[2], x[3])
      [] op = "MaxRow" -> MaxRowImpl(x[1], x[2], x[3], x[4])
      [] op = "LUColumn" -> LUColumnImpl(x[1], x[2])
      [] op = "LUFrom" -> LUFromImpl(x[1], x[2])
      [] op = "DiagProduct" -> DiagProductImpl(x[1], x[2])
      [] op = "Det" -> DetImpl(x[1])
      [] op = "HStack" -> HStackImpl(x[1], x[2])
      [] op = "LeftBlock" -> LeftBlockImpl(x[1], x[2])
      [] op = "RightBlock" -> RightBlockImpl(x[1], x[2])
      [] op = "SwapRows" -> SwapRowsImpl(x[1], x[2], x[3])
      [] op = "GateRejects" -> GateRejectsImpl(x[1])
      [] op = "SwapStep" -> SwapStepImpl(x[1], x[2])
      [] op = "ScaleStep" -> ScaleStepImpl(x[1], x[2])
      [] op = "CombineStep" -> CombineStepImpl(x[1], x[2], x[3])
      [] op = "CallFrame" -> CallFrameImpl(x[1])
      [] op = "FindPivot" -> FindPivotImpl(x[1])
      [] op = "Swapping" -> SwappingImpl(x[1])
      [] op = "SwapPivot" -> SwapPivotImpl(x[1])
      [] op = "CheckPivot" -> CheckPivotImpl(x[1])
      [] op = "Scaling" -> ScalingImpl(x[1])
      [] op = "ScalePivot" -> ScalePivotImpl(x[1])
      [] op = "NextRow" -> NextRowImpl(x[1])
      [] op = "Combining" -> CombiningImpl(x[1])
      [] op = "EliminateRow" -> EliminateRowImpl(x[1])
      [] op = "ReturnInverse" -> ReturnInverseImpl(x[1])
      [] op = "StepFrame" -> StepFrameImpl(x[1])
      [] op = "RunFrame" -> RunFrameImpl(x[1])
      [] op = "GaussJordan" -> GaussJordanImpl(x[1])
      [] op = "Diag" -> DiagImpl(x[1])
      [] op = "IntMatrix" -> IntMatrixImpl(x[1])
      [] op = "Grid" -> GridImpl(x[1], x[2])
      [] op = "IsNumeral" -> IsNumeralImpl(x[1])
      [] op = "GetMatrix" -> GetMatrixImpl(x[1])
      [] op = "DetText" -> DetTextImpl(x[1])
      [] op = "DetLabel" -> DetLabelImpl(x[1])
      [] op = "StepRows" -> StepRowsImpl(x[1])
      [] op = "Cells" -> CellsImpl(x[1])
      [] op = "ShowResult" -> ShowResultImpl(x[1], x[2])
      [] op = "IntGrid" -> IntGridImpl(x[1])
      [] op = "Grids" -> GridsImpl(x[1])

(***************************************************************************)
(* State: the locals of the gauss_jordan_inverse call that runs or ran     *)
(* last (one frame at a time); called_before tells whether an earlier call *)
(* preceded it.                                                            *)
(***************************************************************************)
VARIABLES matrix, n, steps, augmented, col, max_row, row, inverse, applied,
          raised, pc, called_before

\* The fields and widgets of the MatrixInverterApp object; message is the
\* title of the dialog the last handler showed, "" if it showed none.
VARIABLES matrix_size, input_entries, result_labels, last_input_matrix,
          last_inverse_matrix, det_label, steps_table, message

\* Whether the last run of calculate_inverse got as far as calling
\* gauss_jordan_inverse (line 906).
VARIABLE engine_invoked

\* A call format_number(value) on its own and what it gave.
VARIABLES value, formatted

app_vars ==
    <<matrix_size, input_entries, result_labels, last_input_matrix, last_inverse_matrix,
      det_label, steps_table, message, engine_invoked>>

\* The user edits the entries.
TypeEntries(g) ==
    /\ input_entries' = g
    /\ UNCHANGED <<matrix_size, result_labels, last_input_matrix, last_inverse_matrix,
                   det_label, steps_table, message, engine_invoked>>

\* The size spinbox is set and create_matrix_grid runs.
CreateMatrixGrid(size) ==
    /\ matrix_size' = size
    /\ input_entries' = Grid(size, <<"0">>)
    /\ result_labels' = Grid(size, Dash)
    /\ last_input_matrix' = None
    /\ last_inverse_matrix' = None
    /\ message' = ""
    /\ UNCHANGED <<det_label, steps_table, engine_invoked>>

\* clear_result, as the handlers call it.
ClearResult ==
    /\ result_labels' = Grid(Len(result_labels), Dash)
    /\ last_inverse_matrix' = None
    /\ steps_table' = <<>>

\* The Clear button.
ClearMatrices ==
    /\ input_entries' = Grid(Len(input_entries), <<"0">>)
    /\ last_input_matrix' = None
    /\ ClearResult
    /\ det_label' = <<"Determinant: ">> \o Dash
    /\ message' = ""
    /\ UNCHANGED <<matrix_size, engine_invoked>>

\* The Calculate button.
CalculateInverse ==
    LET got == GetMatrix(input_entries)
        det == Det(got.matrix)
        call == GaussJordan(got.matrix)
        shown == ShowResult(result_labels, call.inverse)
    IN  /\ UNCHANGED <<matrix_size, input_entries>>
        /\ IF got.raised # ""
           THEN /\ message' = Dialog(got.raised)
                /\ engine_invoked' = FALSE
                /\ UNCHANGED <<result_labels, last_input_matrix, last_inverse_matrix,
                               det_label, steps_table>>
           ELSE /\ last_input_matrix' = got.matrix
                /\ det_label' = DetLabel(det)
                /\ IF FLt(FAbs(det), Eps)
                   THEN message' = "Error" /\ engine_invoked' = FALSE /\ ClearResult
                   ELSE IF call.pc = "raised"
                   THEN /\ message' = Dialog(call.raised)
                        /\ engine_invoked' = TRUE
                        /\ UNCHANGED <<result_labels, last_inverse_matrix, steps_table>>
                   ELSE /\ last_inverse_matrix' = call.inverse
                        /\ steps_table' = StepRows(call.steps)
                        /\ result_labels' = shown.labels
                        /\ engine_invoked' = TRUE
                        /\ message' = IF shown.raised # "" THEN Dialog(shown.raised) ELSE "Success"

(***************************************************************************)
(* The state machine of the calls of gauss_jordan_inverse.                 *)
(***************************************************************************)
frame_vars == <<matrix, n, steps, augmented, col, max_row, row, inverse, applied, raised, pc>>
fmt_vars == <<value, formatted>>
vars == <<frame_vars, called_before, app_vars, fmt_vars>>

Frame ==
    [matrix |-> matrix, n |-> n, steps |-> steps, augmented |-> augmented, col |-> col,
     max_row |-> max_row, row |-> row, inverse |-> inverse, applied |-> applied,
     raised |-> raised, pc |-> pc]

Install(f) ==
    /\ matrix' = f.matrix
    /\ n' = f.n
    /\ steps' = f.steps
    /\ augmented' = f.augmented
    /\ col' = f.col
    /\ max_row' = f.max_row
    /\ row' = f.row
    /\ inverse' = f.inverse
    /\ applied' = f.applied
    /\ raised' = f.raised
    /\ pc' = f.pc

NoCall ==
    [matrix |-> <<>>, n |-> 0, steps |-> <<>>, augmented |-> <<>>, col |-> 0, max_row |-> 0,
     row |-> 0, inverse |-> <<>>, applied |-> <<>>, raised |-> "", pc |-> "idle"]

Init ==
    /\ matrix = <<>> /\ n = 0 /\ steps = <<>> /\ augmented = <<>> /\ col = 0 /\ max_row = 0
    /\ row = 0 /\ inverse = <<>> /\ applied = <<>> /\ raised = "" /\ pc = "idle"
    /\ called_before = FALSE
    /\ matrix_size = DefaultSize
    /\ input_entries = Grid(DefaultSize, <<"0">>)
    /\ result_labels = Grid(DefaultSize, Dash)
    /\ last_input_matrix = None
    /\ last_inverse_matrix = None
    /\ det_label = <<"Determinant: ">> \o Dash
    /\ steps_table = <<>>
    /\ message = ""
    /\ engine_invoked = FALSE
    /\ value = None
    /\ formatted = None

\* A caller invokes gauss_jordan_inverse(m) for the first time.
Call(m) ==
    /\ pc = "idle"
    /\ Install(CallFrame(m))
    /\ called_before' = FALSE
    /\ UNCHANGED <<app_vars, fmt_vars>>

\* A call that goes on appending to the step list of the call before it.
CallAgainAppending(m) ==
    /\ pc \in {"returned", "raised"}
    /\ Install([CallFrame(m) EXCEPT !.steps = steps])
    /\ called_before' = TRUE
    /\ UNCHANGED <<app_vars, fmt_vars>>

\* A caller invokes gauss_jordan_inverse(m) after an earlier call is over.
CallAgain(m) ==
    /\ pc \in {"returned", "raised"}
    /\ Install(CallFrame(m))
    /\ called_before' = TRUE
    /\ UNCHANGED <<app_vars, fmt_vars>>

Pivot == pc = "pivot" /\ Install(FindPivot(Frame)) /\ UNCHANGED <<called_before, app_vars, fmt_vars>>
Swap == pc = "swap" /\ Install(SwapPivot(Frame)) /\ UNCHANGED <<called_before, app_vars, fmt_vars>>
Check == pc = "check" /\ Install(CheckPivot(Frame)) /\ UNCHANGED <<called_before, app_vars, fmt_vars>>
Scale == pc = "scale" /\ Install(ScalePivot(Frame)) /\ UNCHANGED <<called_before, app_vars, fmt_vars>>
Eliminate == pc = "eliminate" /\ Install(EliminateRow(Frame)) /\ UNCHANGED <<called_before, app_vars, fmt_vars>>
Return == pc = "return" /\ Install(ReturnInverse(Frame)) /\ UNCHANGED <<called_before, app_vars, fmt_vars>>

Next ==
    \/ \E m \in Inputs : Call(m)
    \/ \E m \in Scenarios : CallAgain(m)
    \/ Pivot
    \/ Swap
    \/ Check
    \/ Scale
    \/ Eliminate
    \/ Return

Spec == Init /\ [][Next]_vars

\* The body of gauss_jordan_inverse is sequential code: once called it keeps
\* taking its next step until it returns or raises.  Every step of the body
\* changes the place of the call, and only a step of the body does while
\* the call runs, so the fairness of the body is stated on the place.
Body == Pivot \/ Swap \/ Check \/ Scale \/ Eliminate \/ Return
place == <<pc, col, row>>
Move ==
    /\ pc \in {"pivot", "swap", "check", "scale", "eliminate", "return"}
    /\ pc' \in {"pivot", "swap", "check", "scale", "eliminate", "return", "returned", "raised"}
    /\ col' \in 0..n
    /\ row' \in 0..n
FairSpec == Init /\ [][Next]_vars /\ WF_place(Move)

(***************************************************************************)
(* The state machine of the window: the handlers, each run to its end.     *)
(***************************************************************************)
Type == (\E g \in Grids(matrix_size) : TypeEntries(g)) /\ UNCHANGED <<frame_vars, called_before, fmt_vars>>
Resize ==
    (\E size \in MinSize..MaxSize : CreateMatrixGrid(size)) /\ UNCHANGED <<frame_vars, called_before, fmt_vars>>
Calculate == CalculateInverse /\ UNCHANGED <<frame_vars, called_before, fmt_vars>>
Clear == ClearMatrices /\ UNCHANGED <<frame_vars, called_before, fmt_vars>>

AppNext ==
    \/ Type
    \/ Resize
    \/ Calculate
    \/ Clear

AppSpec == Init /\ [][AppNext]_vars

(***************************************************************************)
(* format_number called on its own, on the values below: decimals of up to *)
(* MaxPlaces places around the two thresholds, and the non-finite floats.  *)
(***************************************************************************)
MaxPlaces == 12
FormatDigits ==
    { <<"1">>, <<"5">>, <<"2", "5">>, <<"1", "2", "3", "4", "5">>,
      <<"9", "9", "9", "9", "9", "5">>,
      <<"9", "9", "9", "9", "9", "9", "9", "9", "9", "9", "9">>,
      <<"1", "0", "0", "0", "0", "0", "0", "0", "0", "0", "0", "1">>,
      <<"3", "0", "0", "0", "0", "0", "0", "0", "0", "0", "0", "5">> }
FormatInputs ==
    {FromDecimal(s, NOfText(d), 0 - p) : s \in 0..1, d \in FormatDigits, p \in 0..MaxPlaces}
    \cup {FInf(0), FInf(1), FNan}

Format(v) ==
    /\ value = None
    /\ value' = v
    /\ formatted' = FormatNumber(v)
    /\ UNCHANGED <<frame_vars, called_before, app_vars>>

FormatNext == \E v \in FormatInputs : Format(v)

FormatSpec == Init /\ [][FormatNext]_vars

(***************************************************************************)
(* Notions the properties are stated with.                                 *)
(***************************************************************************)
Running == pc \notin {"idle", "returned", "raised"}
Kinds(ss) == {ss[k][1] : k \in 1..Len(ss)}

\* An applied row operation carried out on the array a.
ApplyOp(op, a) ==
    CASE op[1] = 1 -> SwapRows(a, op[2], op[3])
      [] op[1] = 2 -> [a EXCEPT ![op[2] + 1] = ScaleRow(a[op[2] + 1], op[3])]
      [] op[1] = 3 -> [a EXCEPT ![op[2] + 1] = AddScaledRow(a[op[2] + 1], op[4], a[op[3] + 1])]

RECURSIVE ApplyOps(_, _)
ApplyOps(ops, a) ==
    IF ops = <<>> THEN a
    ELSE LET b == ApplyOp(Head(ops), a) IN CASE Ready(b) -> ApplyOps(Tail(ops), b)

\* The step the code records for an applied operation.
StepFor(op) ==
    CASE op[1] = 1 -> SwapStep(op[2], op[3])
      [] op[1] = 2 -> ScaleStep(op[2], FormatNumber(op[3]).text)
      [] op[1] = 3 -> CombineStep(op[2], op[3], FormatNumber(op[4]).text)

C6_InputNeverMutated == [][Running => matrix' = matrix]_vars

C6_Witness == pc \in {"returned", "raised"} /\ Kinds(steps) = {1, 2, 3}

\* What a finished call hands to its caller.
Outcome(f) == IF f.pc = "raised" THEN <<f.raised>> ELSE <<f.inverse, f.steps>>

\* C7: the outcome of a call is the outcome of a run on its input alone,
\* whatever was inverted before, and a call starts from an empty step list.
C7_Deterministic ==
    /\ pc \in {"returned", "raised"} => Outcome(Frame) = Outcome(GaussJordan(matrix))
    /\ (pc = "pivot" /\ col = 0) => steps = <<>>

C7_Witness == called_before /\ pc = "returned" /\ steps # <<>>

\* A diagonal matrix whose diagonal entries all have magnitude >= 1e-10.
IsDiagonal(a) == \A i \in 1..Len(a) : \A j \in 1..Len(a) : i # j => IsZero(a[i][j])
NoSmallDiagonal(a) == \A i \in 1..Len(a) : FGe(FAbs(a[i][i]), Eps)
Scaled(d) == FGt(FAbs(FSub(d, One)), Eps)

\* The RowScale steps of the rows i..k-1 of the diagonal matrix a.
RECURSIVE ScaleSteps(_, _)
ScaleSteps(a, i) ==
    IF i >= Len(a) THEN <<>>
    ELSE (IF Scaled(At(a, i, i))
          THEN <<ScaleStep(i, FormatNumber(FDiv(One, At(a, i, i))).text)>>
          ELSE <<>>) \o ScaleSteps(a, i + 1)

\* C9: on a diagonal input without small diagonal entries the call returns,
\* the steps are one RowScale(i, 1/d_i) per row whose d_i differs from 1 by
\* more than 1e-10, in increasing i, and the inverse is diagonal with entry
\* 1/d_i on the scaled rows and 1 on the others.
C9_DiagonalOnlyScales ==
    (pc \in {"returned", "raised"} /\ IsDiagonal(matrix) /\ NoSmallDiagonal(matrix)) =>
        /\ pc = "returned"
        /\ steps = ScaleSteps(matrix, 0)
        /\ \A i \in 1..n : \A j \in 1..n :
               FEq(inverse[i][j],
                   IF i # j THEN FZero(0)
                   ELSE IF Scaled(matrix[i][i]) THEN FDiv(One, matrix[i][i]) ELSE One)

Half == FromDecimal(0, <<5>>, 0 - 1)
C9_Witness ==
    /\ pc = "returned"
    /\ matrix = Diag(<<FInt(2), FInt(2), FInt(2)>>)
    /\ steps = <<ScaleStep(0, FixedText(Half, 4)), ScaleStep(1, FixedText(Half, 4)),
                 ScaleStep(2, FixedText(Half, 4))>>
    /\ FixedText(Half, 4) = <<"0", ".", "5", "0", "0", "0">>
    /\ inverse = Diag(<<Half, Half, Half>>)

(***************************************************************************)
(* Exact arithmetic on the values of finite floats, (-1)^s * m * 2^e with  *)
(* m a natural of any size, for the exact determinant.                     *)
(***************************************************************************)
DyZero == [s |-> 0, m |-> <<>>, e |-> 0]
DyOf(v) == IF v.m = <<>> THEN DyZero ELSE [s |-> v.s, m |-> v.m, e |-> v.e]
DyNeg(a) == IF a.m = <<>> THEN a ELSE [a EXCEPT !.s = 1 - a.s]
DyMul(a, b) ==
    IF a.m = <<>> \/ b.m = <<>> THEN DyZero
    ELSE [s |-> (a.s + b.s) % 2, m |-> NMul(a.m, b.m), e |-> a.e + b.e]
DyAdd(a, b) ==
    LET e == Min(a.e, b.e)
        x == NShl(a.m, a.e - e)
        y == NShl(b.m, b.e - e)
        c == NCmp(x, y)
    IN  IF a.m = <<>> THEN b
        ELSE IF b.m = <<>> THEN a
        ELSE CASE Ready(x) /\ Ready(y) ->
                 IF a.s = b.s THEN [s |-> a.s, m |-> NAdd(x, y), e |-> e]
                 ELSE IF c = 0 THEN DyZero
                 ELSE IF c > 0 THEN [s |-> a.s, m |-> NSub(x, y), e |-> e]
                 ELSE [s |-> b.s, m |-> NSub(y, x), e |-> e]

\* The array a without its first row and without column j (1-based).
Minor(a, j) ==
    Vec([i \in 1..(Len(a) - 1) |-> SubSeq(a[i + 1], 1, j - 1) \o SubSeq(a[i + 1], j + 1, Len(a))])

\* The determinant, exactly, by expansion along the first row.
RECURSIVE ExactDet(_)
RECURSIVE ExactDetFrom(_, _)
ExactDet(a) == IF Len(a) = 0 THEN DyOf(One) ELSE ExactDetFrom(a, 1)
ExactDetFrom(a, j) ==
    IF j > Len(a) THEN DyZero
    ELSE LET rest == ExactDetFrom(a, j + 1)
             term == IF IsZero(a[1][j]) THEN DyZero
                     ELSE DyMul(DyOf(a[1][j]), ExactDet(Minor(a, j)))
         IN  CASE Ready(rest) /\ Ready(term) ->
                 DyAdd(IF j % 2 = 1 THEN term ELSE DyNeg(term), rest)

Invertible(a) == ExactDet(a).m # <<>>

\* The matrix product in floating point, each entry summed left to right.
RECURSIVE DotFrom(_, _, _, _, _)
DotFrom(a, b, i, j, k) ==
    IF k = 0 THEN FZero(0)
    ELSE LET head == DotFrom(a, b, i, j, k - 1)
         IN  CASE Ready(head) -> FAdd(head, FMul(a[i][k], b[k][j]))
MatMul(a, b) ==
    Vec([i \in 1..Len(a) |-> Vec([j \in 1..Len(a) |-> DotFrom(a, b, i, j, Len(a))])])

\* a and b agree entry by entry within tol.
Within(a, b, tol) ==
    /\ Len(a) = Len(b)
    /\ \A i \in 1..Len(a) : \A j \in 1..Len(a[i]) : FLe(FAbs(FSub(a[i][j], b[i][j])), tol)

Tol6 == FromDecimal(0, <<1>>, 0 - 6)
Tol9 == FromDecimal(0, <<1>>, 0 - 9)

\* C1: whenever a call on an invertible matrix returns, matrix x inverse
\* and inverse x matrix are the identity within 1e-6.
C1_IdentityLaw ==
    (pc = "returned" /\ Invertible(matrix)) =>
        /\ Within(MatMul(matrix, inverse), Eye(n), Tol6)
        /\ Within(MatMul(inverse, matrix), Eye(n), Tol6)

\* Reading a recorded step back: the 1-based indices in subscript digits
\* and the scalar between the parentheses.
SubscriptValue(c) == CHOOSE d \in 0..9 : SUBSCRIPT_DIGITS[d + 1] = c
RECURSIVE SubscriptNumber(_)
SubscriptNumber(t) ==
    IF t = <<>> THEN 0
    ELSE (10 * SubscriptNumber(SubSeq(t, 1, Len(t) - 1))) + SubscriptValue(t[Len(t)])

Position(t, c) ==
    IF \E i \in 1..Len(t) : t[i] = c THEN CHOOSE i \in 1..Len(t) : t[i] = c /\ \A h \in 1..(i - 1) : t[h] # c
    ELSE Len(t) + 1

\* The row operation a step (tag, text) describes, with 0-based rows.
OpOfStep(st) ==
    LET text == st[2]
        open == Position(text, "(")
        head == SubSeq(text, 2, open - 1)
        comma == Position(head, ",")
        first == SubscriptNumber(SubSeq(head, 1, comma - 1)) - 1
        second == SubscriptNumber(SubSeq(head, comma + 1, Len(head))) - 1
        scalar == ParseFloat(SubSeq(text, open + 1, Len(text) - 1))
    IN  CASE st[1] = 1 -> <<1, first, second>>
          [] st[1] = 2 -> <<2, first, scalar>>
          [] st[1] = 3 -> <<3, first, second, scalar>>

OpsOfSteps(ss) == Vec([k \in 1..Len(ss) |-> OpOfStep(ss[k])])

\* C3: whenever a call returns, the returned steps, read back from their
\* tags and texts and applied in order to the identity, give the returned
\* inverse within 1e-9.
C3_ReplayInvariant ==
    pc = "returned" => Within(ApplyOps(OpsOfSteps(steps), Eye(n)), inverse, Tol9)

\* C5: a call on a matrix whose determinant is exactly 0 raises the
\* singular error, and hands back no inverse.
C5_SingularRaises ==
    (pc \in {"returned", "raised"} /\ ~Invertible(matrix)) =>
        pc = "raised" /\ raised = "LinAlgError" /\ inverse = <<>>

\* C8: whenever a call on an invertible matrix returns, a call on the
\* returned inverse returns too, and what it returns is the matrix within
\* 1e-6.
C8_RoundTrip ==
    (pc = "returned" /\ Invertible(matrix)) =>
        LET back == GaussJordan(inverse)
        IN  back.pc = "returned" /\ Within(back.inverse, matrix, Tol6)

\* C10: the determinant gate and the pivot check give the same verdict on
\* every input: the gate rejects a matrix exactly when the call on it
\* raises the singular error.
C10_SingularityTestsAgree ==
    pc \in {"returned", "raised"} =>
        (GateRejects(matrix) <=> (pc = "raised" /\ raised = "LinAlgError"))

\* Nothing of any inversion is stored or shown.
NothingShown ==
    /\ last_inverse_matrix = None
    /\ steps_table = <<>>
    /\ result_labels = Grid(Len(result_labels), Dash)

\* C4: all-or-nothing outcome of calculate_inverse.  After a call that
\* succeeded, the stored inverse, the steps shown and the determinant shown
\* are those of the input of that call; after a call that failed as
\* singular, by the determinant gate ("Error") or by the pivot check of
\* gauss_jordan_inverse ("Calculation Error"), no inverse is stored, no step
\* is shown and every result cell shows the dash.
C4_AllOrNothing ==
    /\ message \in {"Error", "Calculation Error"} => NothingShown
    /\ message = "Success" =>
          /\ last_inverse_matrix = GaussJordan(last_input_matrix).inverse
          /\ steps_table = StepRows(GaussJordan(last_input_matrix).steps)
          /\ det_label = DetLabel(Det(last_input_matrix))


(***************************************************************************)
(* The formatting rule, stated on the exact values of the floats.          *)
(***************************************************************************)
DyLess(a, b) == LET d == DyAdd(a, DyNeg(b)) IN d.m # <<>> /\ d.s = 1
DyAbs(a) == [a EXCEPT !.s = 0]
DyNat(a) == [s |-> 0, m |-> a, e |-> 0]

\* The integers next to the finite float v, as <<sign, natural>>.
Neighbours(v) ==
    LET lo == IF v.e >= 0 THEN NShl(v.m, v.e) ELSE NShr(v.m, 0 - v.e)
    IN  {<<v.s, lo>>, <<v.s, NAdd(lo, <<1>>)>>}
NearInteger(v, k) ==
    DyLess(DyAbs(DyAdd(DyOf(v), DyNeg([s |-> k[1], m |-> k[2], e |-> 0]))), DyOf(Eps))

\* A natural in decimal, without leading zeros.
IsNatText(t) ==
    /\ t # <<>>
    /\ \A i \in 1..Len(t) : IsDigit(t[i])
    /\ Len(t) > 1 => t[1] # "0"

\* t is the integer k = <<sign, natural>> in decimal, no decimal point.
IsIntegerTextOf(t, k) ==
    LET body == IF t # <<>> /\ t[1] = "-" THEN Tail(t) ELSE t
    IN  /\ (t # <<>> /\ t[1] = "-") <=> (k[1] = 1 /\ k[2] # <<>>)
        /\ IsNatText(body)
        /\ NOfText(body) = k[2]

\* t is the finite float v with exactly four digits after the decimal
\* point: sign, whole part, point, four digits, the number written being
\* within half a unit of the last place of v (on a tie, the even one).
IsFourPlacesOf(t, v) ==
    LET body == IF t # <<>> /\ t[1] = "-" THEN Tail(t) ELSE t
        whole == SubSeq(body, 1, Len(body) - 5)
        frac == SubSeq(body, Len(body) - 3, Len(body))
        N == NOfText(whole \o frac)
        twice == DyAdd(DyMul(DyAbs(DyOf(v)), DyNat(NOfInt(20000))), DyNeg(DyNat(NMulSmall(N, 2))))
    IN  /\ (t # <<>> /\ t[1] = "-") <=> (v.s = 1)
        /\ Len(body) >= 6
        /\ body[Len(body) - 4] = "."
        /\ IsNatText(whole)
        /\ \A i \in 1..4 : IsDigit(frac[i])
        /\ ~DyLess(DyNat(<<1>>), DyAbs(twice))
        /\ DyAbs(twice) = DyNat(<<1>>) => NBit(N, 0) = 0

FormattingRule(v, out) ==
    IF IsFinite(v) /\ FLt(FAbs(v), Eps) THEN out = [raised |-> "", text |-> <<"0">>]
    ELSE IF IsFinite(v) /\ \E k \in Neighbours(v) : NearInteger(v, k)
    THEN /\ out.raised = ""
         /\ \E k \in Neighbours(v) : NearInteger(v, k) /\ IsIntegerTextOf(out.text, k)
    ELSE /\ out.raised = ""
         /\ IsFinite(v)
         /\ IsFourPlacesOf(out.text, v)

\* The rule on the finite values: it holds there.
FiniteFormattingRule == (formatted # None /\ IsFinite(value)) => FormattingRule(value, formatted)

\* C11: for every value v handed to format_number, the result is "0" when
\* |v| < 1e-10; otherwise the decimal text of the integer k, sign included
\* and without a decimal point, when v is within 1e-10 of k; otherwise v
\* with exactly four digits after the decimal point.
C11_FormattingRule == formatted # None => FormattingRule(value, formatted)


(***************************************************************************)
(* Reading the shape of a step text: E, a row number in subscript digits,  *)
(* then possibly a comma and a second row number, then possibly a scalar   *)
(* between parentheses.                                                    *)
(***************************************************************************)
IsSubscript(c) == \E d \in 0..9 : SUBSCRIPT_DIGITS[d + 1] = c
IsRowNumber(t) ==
    /\ t # <<>>
    /\ \A i \in 1..Len(t) : IsSubscript(t[i])
    /\ t[1] # SUBSCRIPT_DIGITS[1]
StepHead(text) == SubSeq(text, 2, Position(text, "(") - 1)
HasScalar(text) ==
    /\ Position(text, "(") < Len(text) - 1
    /\ text[Len(text)] = ")"
HasSecondRow(text) == Position(StepHead(text), ",") <= Len(StepHead(text))
FirstRow(text) == SubSeq(StepHead(text), 1, Position(StepHead(text), ",") - 1)
SecondRow(text) == SubSeq(StepHead(text), Position(StepHead(text), ",") + 1, Len(StepHead(text)))

\* The kind of step a text alone shows: 1 swap, 2 scale, 3 combine, 0 none.
KindOfText(text) ==
    IF text = <<>> \/ text[1] # "E" \/ ~IsRowNumber(FirstRow(text)) THEN 0
    ELSE IF HasSecondRow(text) /\ ~IsRowNumber(SecondRow(text)) THEN 0
    ELSE IF HasSecondRow(text) /\ Position(text, "(") > Len(text) THEN 1
    ELSE IF ~HasSecondRow(text) /\ HasScalar(text) THEN 2
    ELSE IF HasSecondRow(text) /\ HasScalar(text) THEN 3
    ELSE 0

\* C12: every recorded step carries the tag of the row operation carried
\* out (1 swap, 2 scale, 3 combine), its text has the shape of that kind
\* (E_i,_j / E_i(k) / E_i,_j(k)) and no other, and the row numbers in it
\* are the 0-based rows of the operation plus one, within 1..N: the row
\* changed first and, for a combine, the row added to it second.
C12_StepRendering ==
    \A k \in 1..Len(steps) :
        /\ k <= Len(applied)
        /\ steps[k][1] = applied[k][1]
        /\ KindOfText(steps[k][2]) = steps[k][1]
        /\ SubscriptNumber(FirstRow(steps[k][2])) = applied[k][2] + 1
        /\ SubscriptNumber(FirstRow(steps[k][2])) \in 1..n
        /\ steps[k][1] \in {1, 3} =>
               /\ SubscriptNumber(SecondRow(steps[k][2])) = applied[k][3] + 1
               /\ SubscriptNumber(SecondRow(steps[k][2])) \in 1..n

C12_Witness == pc = "returned" /\ n = 3 /\ Kinds(steps) = {1, 2, 3} /\ Len(steps) > 6


\* Some entry of the grid is not the text of a number.
Unparseable(entries) ==
    \E i \in 1..Len(entries) : \E j \in 1..Len(entries[i]) : ~IsNumeral(entries[i][j])

\* C13: a calculate_inverse with an entry that is no number reports an
\* input error without invoking gauss_jordan_inverse, and leaves
\* last_input_matrix, last_inverse_matrix, the determinant shown, the steps
\* shown and the result cells as they were.
C13_InvalidInputBeforeEngine ==
    [][(Calculate /\ Unparseable(input_entries)) =>
          /\ message' = "Input Error"
          /\ engine_invoked' = FALSE
          /\ UNCHANGED <<last_input_matrix, last_inverse_matrix, det_label,
                         steps_table, result_labels>>]_vars

C13_Witness ==
    /\ Unparseable(input_entries)
    /\ message = "Input Error"
    /\ ~engine_invoked
    /\ last_inverse_matrix # None
    /\ ~NothingShown


\* The absolute value of the entry of row r in the pivot column.
PivotColumnAbs(r) == FAbs(At(augmented, r, col))

\* C14: when the pivot search of a column is over, max_row is one of the
\* rows col..N-1, no row col..N-1 has an entry of greater absolute value in
\* column col, and no row before max_row has one as great; so max_row is
\* col whenever row col attains the maximum.
C14_PivotSelection ==
    pc = "swap" =>
        /\ max_row \in col..(n - 1)
        /\ \A r \in col..(n - 1) : ~FGt(PivotColumnAbs(r), PivotColumnAbs(max_row))
        /\ \A r \in col..(max_row - 1) : ~FGe(PivotColumnAbs(r), PivotColumnAbs(max_row))
        /\ (\A r \in col..(n - 1) : FGe(PivotColumnAbs(col), PivotColumnAbs(r)))
               => max_row = col

C14_Witness ==
    /\ pc = "swap"
    /\ max_row = col
    /\ \E r \in (col + 1)..(n - 1) :
           /\ FEq(PivotColumnAbs(r), PivotColumnAbs(col))
           /\ FGt(PivotColumnAbs(r), Eps)

\* The search also moves off row col when a later row is strictly larger.
C14_LaterRowChosen ==
    /\ pc = "swap"
    /\ max_row > col
    /\ FGt(PivotColumnAbs(col), Eps)


\* The rows of a after rows i and j (0-based) are exchanged, column by column.
Exchanged(a, i, j) ==
    [r \in 1..Len(a) |->
        [c \in 1..Len(a[r]) |->
            IF r = i + 1 THEN a[j + 1][c] ELSE IF r = j + 1 THEN a[i + 1][c] ELSE a[r][c]]]

\* The text alone shows a swap of rows i and j (0-based).
ShowsSwap(step, i, j) ==
    /\ step[1] = 1
    /\ KindOfText(step[2]) = 1
    /\ SubscriptNumber(FirstRow(step[2])) = i + 1
    /\ SubscriptNumber(SecondRow(step[2])) = j + 1

\* C15: the step from the end of the pivot search to the singularity check
\* exchanges rows col and max_row over all 2N columns and appends the swap
\* step of these two rows when max_row # col, and changes neither the
\* augmented matrix nor the steps when max_row = col; the singularity check
\* of the column has not run yet, and no recorded swap names one row twice.
C15_RowSwap ==
    [][pc = "swap" =>
          /\ pc' = "check"
          /\ raised' = ""
          /\ col' = col
          /\ IF max_row # col
             THEN /\ augmented' = Exchanged(augmented, col, max_row)
                  /\ Len(augmented'[col + 1]) = 2 * n
                  /\ Len(steps') = Len(steps) + 1
                  /\ SubSeq(steps', 1, Len(steps)) = steps
                  /\ ShowsSwap(steps'[Len(steps')], col, max_row)
             ELSE /\ augmented' = augmented
                  /\ steps' = steps
          /\ \A k \in 1..Len(steps') :
                 steps'[k][1] = 1 => FirstRow(steps'[k][2]) # SecondRow(steps'[k][2])]_vars

\* The call on [[0,1],[1,0]] just after the first column's swap, before
\* its singularity check.
C15_Witness ==
    /\ matrix = IntMatrix(<<<<0, 1>>, <<1, 0>>>>)
    /\ pc = "check"
    /\ col = 0
    /\ Len(steps) = 1
    /\ ShowsSwap(steps[1], 0, 1)
    /\ augmented = HStack(IntMatrix(<<<<1, 0>>, <<0, 1>>>>), IntMatrix(<<<<0, 1>>, <<1, 0>>>>))


\* The pivot of the current column is below the threshold of line 819.
PivotTooSmall == FLt(FAbs(At(augmented, col, col)), Eps)

\* A singular pivot aborts at once: the singular error is raised with the
\* augmented matrix and the steps as the check found them, and no inverse.
SingularPivotAborts ==
    [][pc = "check" /\ PivotTooSmall =>
          /\ pc' = "raised"
          /\ raised' = "LinAlgError"
          /\ augmented' = augmented
          /\ steps' = steps
          /\ inverse' = <<>>]_vars

\* C16: a pivot with |augmented[col][col]| < 1e-10 after pivoting makes
\* gauss_jordan_inverse raise the singular error at once, with no scale or
\* combine of that column or a later one carried out and nothing returned;
\* and a call is aborted by nothing else than this check finding such a
\* pivot.
C16_SingularityCheck ==
    [][/\ pc = "check" /\ PivotTooSmall =>
             /\ pc' = "raised"
             /\ raised' = "LinAlgError"
             /\ augmented' = augmented
             /\ steps' = steps
             /\ inverse' = <<>>
       /\ pc # "raised" /\ pc' = "raised" =>
             /\ pc = "check"
             /\ PivotTooSmall
             /\ raised' = "LinAlgError"]_vars

\* A call aborted in the second column, after steps of the first.
SingularAbortReached ==
    /\ pc = "raised"
    /\ raised = "LinAlgError"
    /\ col > 0
    /\ steps # <<>>
    /\ inverse = <<>>


\* The scalar written between the parentheses of a step text.
ScalarText(text) == SubSeq(text, Position(text, "(") + 1, Len(text) - 1)

\* The step shows the scaling of row i (0-based) by the scalar k.
ShowsScale(step, i, k) ==
    /\ step[1] = 2
    /\ KindOfText(step[2]) = 2
    /\ SubscriptNumber(FirstRow(step[2])) = i + 1
    /\ ScalarText(step[2]) = FormatNumber(k).text

\* C17: the step taken on a pivot that passed the singularity check
\* multiplies every one of the 2N entries of the pivot row by 1.0 / pivot
\* and appends the scale step of row col with that scalar when
\* |pivot - 1.0| > 1e-10, and changes neither the augmented matrix nor the
\* steps otherwise; either way the elimination of the column comes next.
C17_PivotNormalization ==
    [][pc = "scale" =>
          LET pivot == At(augmented, col, col)
              scalar == FDiv(One, pivot)
          IN  /\ pc' = "eliminate"
              /\ col' = col
              /\ IF FGt(FAbs(FSub(pivot, One)), Eps)
                 THEN /\ Len(augmented') = n
                      /\ \A r \in 1..n : Len(augmented'[r]) = 2 * n
                      /\ \A r \in 1..n : \A c \in 1..(2 * n) :
                             augmented'[r][c] =
                                 IF r = col + 1 THEN FMul(augmented[r][c], scalar)
                                 ELSE augmented[r][c]
                      /\ Len(steps') = Len(steps) + 1
                      /\ SubSeq(steps', 1, Len(steps)) = steps
                      /\ ShowsScale(steps'[Len(steps')], col, scalar)
                 ELSE /\ augmented' = augmented
                      /\ steps' = steps]_vars

\* The second column has just been scaled by a scalar that is no integer.
C17_Witness ==
    /\ pc = "eliminate"
    /\ row = 0
    /\ col = 1
    /\ steps # <<>>
    /\ applied[Len(applied)][1] = 2
    /\ applied[Len(applied)][2] = col
    /\ ShowsScale(steps[Len(steps)], col, applied[Len(applied)][3])
    /\ Position(ScalarText(steps[Len(steps)][2]), ".") < Len(ScalarText(steps[Len(steps)][2]))
    /\ At(augmented, col, col) = One

\* A pivot within 1e-10 of 1.0 was left alone: no scale step for the column.
ScaleSkipped ==
    /\ pc = "eliminate"
    /\ row = 0
    /\ col = 1
    /\ applied # <<>>
    /\ applied[Len(applied)][1] = 3


\* The step shows row i := row i + k * row j (rows 0-based).
ShowsCombine(step, i, j, k) ==
    /\ step[1] = 3
    /\ KindOfText(step[2]) = 3
    /\ SubscriptNumber(FirstRow(step[2])) = i + 1
    /\ SubscriptNumber(SecondRow(step[2])) = j + 1
    /\ ScalarText(step[2]) = FormatNumber(k).text

\* What the visit of the current row by the loop of lines 830-834 is to do.
Elimination ==
    LET entry == At(augmented, row, col)
        factor == FNeg(entry)
    IN  IF row # col /\ FGt(FAbs(entry), Eps)
        THEN /\ Len(augmented') = n
             /\ \A r \in 1..n : Len(augmented'[r]) = 2 * n
             /\ \A r \in 1..n : \A c \in 1..(2 * n) :
                    augmented'[r][c] =
                        IF r = row + 1
                        THEN FAdd(augmented[r][c], FMul(factor, augmented[col + 1][c]))
                        ELSE augmented[r][c]
             /\ Len(steps') = Len(steps) + 1
             /\ SubSeq(steps', 1, Len(steps)) = steps
             /\ ShowsCombine(steps'[Len(steps')], row, col, factor)
        ELSE /\ augmented' = augmented
             /\ steps' = steps

\* The visits whose entry in the pivot column is finite do exactly that.
FiniteElimination ==
    [][pc = "eliminate" /\ At(augmented, row, col).k = "fin" => Elimination]_vars

\* C18: the visit of row r in the elimination of column col replaces row r
\* by row r + factor * row col, factor = -augmented[r][col], and appends the
\* combine step of r, col and factor when r # col and
\* |augmented[r][col]| > 1e-10; otherwise (the pivot row, or an entry of
\* absolute value at most 1e-10) it changes no row and appends no step.
C18_ColumnElimination == [][pc = "eliminate" => Elimination]_vars

\* A row above the pivot has just been combined in the second column.
RowAboveCombined ==
    /\ col = 1
    /\ applied # <<>>
    /\ applied[Len(applied)][1] = 3
    /\ applied[Len(applied)][2] = 0
    /\ applied[Len(applied)][3] = 1
    /\ ShowsCombine(steps[Len(steps)], 0, 1, applied[Len(applied)][4])


\* C19: whatever calculate_inverse, clear_result, clear_matrices and
\* create_matrix_grid have run, last_inverse_matrix is None or the inverse
\* that gauss_jordan_inverse returns for the matrix in last_input_matrix;
\* it is never kept next to a later input whose inversion failed.
C19_CacheConsistency ==
    last_inverse_matrix # None =>
        /\ last_input_matrix # None
        /\ GaussJordan(last_input_matrix).pc = "returned"
        /\ GaussJordan(last_input_matrix).inverse = last_inverse_matrix

\* The pair is consistent after a calculation that succeeded.
CacheFilled ==
    /\ message = "Success"
    /\ last_inverse_matrix # None
    /\ GaussJordan(last_input_matrix).inverse = last_inverse_matrix


\* The number of recorded steps of a kind.
CountOf(kind) == Cardinality({k \in 1..Len(steps) : steps[k][1] = kind})

StepBounds ==
    /\ CountOf(1) <= n
    /\ CountOf(2) <= n
    /\ CountOf(3) <= n * (n - 1)
    /\ Len(steps) <= n * n + n
    /\ n = 1 => Len(steps) <= 1 /\ CountOf(2) = Len(steps)
    /\ Running => col \in 0..(n - 1)

\* While a call runs, the steps that change its place are the steps of the
\* body, and every step of the body changes it.
MovesAreBodySteps ==
    [][Running => ((place' # place) <=> (Body /\ vars' # vars))]_vars

\* How far the two loops have come: the pivot column, then the place in
\* its body.
Progress ==
    CASE pc = "pivot" -> col * (n + 4)
      [] pc = "swap" -> col * (n + 4) + 1
      [] pc = "check" -> col * (n + 4) + 2
      [] pc = "scale" -> col * (n + 4) + 3
      [] pc = "eliminate" -> col * (n + 4) + 4 + row
      [] OTHER -> n * (n + 4)

\* C20: a call of gauss_jordan_inverse on an N x N array, N >= 1, always
\* comes to return or raise; until then every step of its body moves it
\* forward through at most N pivot columns, never back; and at every moment
\* the steps recorded are at most N swaps, N scalings and N * (N - 1)
\* combinations, N * N + N in all, and for N = 1 at most one step, a
\* scaling.
C20_TerminationAndStepBound ==
    /\ []StepBounds
    /\ [][Running /\ Running' => Progress' > Progress /\ col' >= col /\ n' = n]_vars
    /\ (Running ~> pc \in {"returned", "raised"})

\* A returned 2 x 2 call with as many scalings and combinations as the
\* bound allows.
C20_Witness ==
    /\ pc = "returned"
    /\ n = 2
    /\ CountOf(2) = n
    /\ CountOf(3) = n * (n - 1)

\* A returned 1 x 1 call with its one step, a scaling.
OneByOneScaled == pc = "returned" /\ n = 1 /\ Len(steps) = 1 /\ steps[1][1] = 2


\* Column c (0-based) has been processed by the loop of line 806.
Processed(c) == c < col \/ pc \in {"return", "returned"}

\* Column c of the left block is that of the identity within 1e-10.
ColumnReduced(c) ==
    \A r \in 0..(n - 1) :
        IF r = c THEN FLe(FAbs(FSub(At(augmented, r, c), One)), Eps)
        ELSE FLe(FAbs(At(augmented, r, c)), Eps)

\* C21: at every point of a call that has not raised, each column of the
\* left block that has been processed has its pivot entry within 1e-10 of
\* 1 and every other entry of absolute value at most 1e-10, whatever later
\* columns have done since; so the left block of a call that returned is
\* the identity within that tolerance.
C21_ReducedLeftBlock ==
    pc \notin {"idle", "raised"} =>
        \A c \in 0..(n - 1) : Processed(c) => ColumnReduced(c)

\* A call that returned with its left block reduced after combinations in
\* both columns.
LeftBlockReduced ==
    /\ pc = "returned"
    /\ n = 2
    /\ CountOf(3) = 2
    /\ \A c \in 0..(n - 1) : ColumnReduced(c)


\* The call on [[1, 1e11], [0, 1.00000000005]] has returned with -5 above
\* the second pivot.
UnscaledPivotLeavesResidue ==
    /\ pc = "returned"
    /\ matrix = <<<<One, Huge>>, <<FZero(0), NearOne>>>>
    /\ At(augmented, 0, 1) = FInt(0 - 5)
    /\ At(augmented, 1, 1) = NearOne


(***************************************************************************)
(* The step log read from its tags and texts: the rows a step names        *)
(* (0-based), and the pivot column it belongs to, which is the first row   *)
(* of a swap or a scaling and the second row of a combination.             *)
(***************************************************************************)
RowA(st) == SubscriptNumber(FirstRow(st[2])) - 1
RowB(st) == SubscriptNumber(SecondRow(st[2])) - 1
ColumnOf(st) == IF st[1] = 3 THEN RowB(st) ELSE RowA(st)

\* Step a may be followed at once by step b.
MayFollow(a, b) ==
    \/ ColumnOf(a) < ColumnOf(b)
    \/ /\ ColumnOf(a) = ColumnOf(b)
       /\ \/ a[1] < b[1]
          \/ a[1] = 3 /\ b[1] = 3 /\ RowA(a) < RowA(b)

StepLogOrdered ==
    /\ \A k \in 1..Len(steps) :
           /\ KindOfText(steps[k][2]) = steps[k][1]
           /\ ColumnOf(steps[k]) \in 0..(n - 1)
           /\ steps[k][1] = 1 =>
                  RowB(steps[k]) > ColumnOf(steps[k]) /\ RowB(steps[k]) <= n - 1
           /\ steps[k][1] = 3 =>
                  RowA(steps[k]) # ColumnOf(steps[k]) /\ RowA(steps[k]) \in 0..(n - 1)
    /\ \A k \in 1..(Len(steps) - 1) : MayFollow(steps[k], steps[k + 1])

\* C22: the steps recorded are in non-decreasing order of pivot column;
\* within a column there is at most one swap, of rows col and m with
\* col < m <= N-1, then at most one scaling of row col, then the
\* combinations in strictly increasing target row r # col; and every step
\* is appended at the end of the list while its column is the pivot column
\* of the loop, so no step names another pivot row than that column.
C22_StepLogOrdering ==
    /\ []StepLogOrdered
    /\ [][Running /\ steps' # steps =>
              /\ Len(steps') = Len(steps) + 1
              /\ SubSeq(steps', 1, Len(steps)) = steps
              /\ ColumnOf(steps'[Len(steps')]) = col]_vars

\* A returned 3 x 3 call whose first column has a swap, a scaling and a
\* combination, with steps of later columns after them.
C22_Witness ==
    /\ pc = "returned"
    /\ n = 3
    /\ \A kind \in 1..3 : \E k \in 1..Len(steps) : steps[k][1] = kind /\ ColumnOf(steps[k]) = 0
    /\ \E k \in 1..Len(steps) : ColumnOf(steps[k]) = 2
    /\ \E k \in 1..Len(steps) : steps[k][1] = 3 /\ RowA(steps[k]) < ColumnOf(steps[k])

=============================================================================
